---- MODULE Spec2Model ----
(***************************************************************************)
(* DailyJournal: a model of the commit parsers, the commit extractor, the  *)
(* repository locator, the context assembler and the two programs' runs    *)
(* (scripts/generate_daily_summary.py, scripts/ai_journal_generator.py).   *)
(*                                                                         *)
(* Text is modelled as a sequence of one-character strings, so that        *)
(* str.strip, str.split, str.startswith, the "in" substring test and the   *)
(* file-stat regular expression are computed, not assumed.                 *)
(***************************************************************************)
EXTENDS Integers, Sequences, FiniteSets, TLC

VARIABLES
    \* ---- stat-mode parser (_parse_git_log) ----
    log_output,      \* the lines of the text being parsed (log_output.split('\n'))
    pos,             \* number of lines the for loop has consumed
    commits,         \* the result list
    current_commit,  \* <<>> for None, <<c>> for the commit being accumulated
    current_files,   \* the file list being accumulated
    ppc,             \* "loop" | "done"
    \* ---- commit extractor (get_git_commits, get_file_modifications) ----
    program,         \* "static" (generate_daily_summary) | "narrative" (ai_journal_generator)
    config_max,      \* <<>> when max_commits_per_repo is absent, <<m>> when configured
    cwd,             \* the process's current working directory
    git_cache,       \* self._git_cache: key -> <<>> (no entry) | <<records>>
    ret,             \* what the last call returned
    raised,          \* whether the last call raised to its caller
    op,              \* the last call: its name, arguments and what happened in it
    \* ---- context assembler (_prepare_ai_context) ----
    all_commits,     \* the commits handed to _prepare_ai_context
    context,         \* <<>> before the call, <<ctx>> after it
    \* ---- repository locator (find_git_repos) ----
    tree,            \* the directories under the workspace root that hold a .git directory
    exclude_patterns,\* config exclude_patterns: <<>> when absent, <<list>> when present
    exclude_projects,\* config exclude_projects: <<>> when absent, <<list>> when present
    found,           \* the last find_git_repos call: its scan outcome, result and exception
    \* ---- one run of a program (main) ----
    env,             \* what the run finds: config file, provider, packages, API key, service
    pc,              \* "start" | "constructed" | "scanned" | "collected" | "generated" | "exited"
    exit_code,       \* -1 while running, then 0 or 1
    failure,         \* the exception main caught: the operation that raised it and its cause
    trail,           \* the collection operations performed so far, in order
    saved,           \* whether the output document was written
    \* ---- invocations of main: arguments, output files, last-run marker ----
    args,            \* --start, --end (<<>> when not given) and --date of the invocation
    mpc,             \* "exited" | "start" | "single" | "range" | "loop"
    current,         \* the narrative range loop's current day (a day number)
    cache_file,      \* the last-run marker file: <<>> when absent, <<text>> otherwise
    written,         \* the names of the files the invocation has written, in order
    status,          \* the invocation's exit status: -1 while running, then 0 or 1
    runs,            \* the number of invocations started
    \* ---- the static document (generate_summary, _format_summary, save_summary) ----
    clock,           \* the time of the run, in hours since the commits and plans were made
    repo_commits,    \* repository -> its commits of the target date, most recent first
    dirty,           \* repository -> its uncommitted files modified on the target date
    plan_files,      \* the *.plan.md files of the plans directory
    extracted,       \* repository -> the records get_git_commits returned in this run
    document,        \* the document generate_summary returned in this run
    summary_file,    \* the content of {date}_summary.md: <<>> when absent, <<lines>>
    documents,       \* the documents returned by the runs so far, in order
    dpc,             \* "ready" | "generated" | "saved"
    \* ---- plan collector (get_cursor_plans) ----
    plans_dir,       \* the plans directory: whether it exists and its files
    call_time,       \* the time of the call, in hours of local time
    plans_target,    \* the target date of the call, as a day number
    plans_ret,       \* <<>> before the call, <<the list returned>> after it
    plans_scan,      \* the outcome of the static program's find: "ok" | "timeout" | "none"
    \* ---- activity collector (get_cursor_activity) and its consumers ----
    store,           \* the tracking store: its state and the rows of ai_code_hashes
    use_cursor_logs, \* config use_cursor_logs: <<>> when absent, <<flag>> when present
    activity,        \* <<>> before the call, <<the bundle returned>> after it
    act_raised,      \* whether a call of this group raised to its caller
    prompt,          \* the activity part of the prompt and of the document's details
    apc,             \* "ready" | "collected" | "done"
    \* ---- chat-context collector (get_cursor_chat_context) ----
    sessions,        \* the session directories of the chats directory, in iteration order
    use_cursor_memory, \* config use_cursor_memory: <<>> when absent, <<flag>> when present
    chats            \* <<>> before the call, <<the list returned>> after it

pvars == <<log_output, pos, commits, current_commit, current_files, ppc>>
gvars == <<program, config_max, cwd, git_cache, ret, raised, op>>
cvars == <<all_commits, context>>
lvars == <<tree, exclude_patterns, exclude_projects, found>>
rvars == <<env, pc, exit_code, failure, trail, saved>>
mvars == <<args, mpc, current, cache_file, written, status, runs>>
\* the variables of the invocation-level and collector-level specifications
dvars == <<clock, repo_commits, dirty, plan_files, extracted, document, summary_file,
           documents, dpc>>
kvars == <<plans_dir, call_time, plans_target, plans_ret, plans_scan>>
avars == <<store, use_cursor_logs, activity, act_raised, prompt, apc>>
hvars == <<sessions, use_cursor_memory, chats>>
ovars == <<mvars, dvars, kvars, avars, hvars>>
vars == <<pvars, gvars, cvars, lvars, rvars, ovars>>

-----------------------------------------------------------------------------
(* Bounds *)

MaxLines == 5
MaxFlatLines == 3
MaxCommits == 2
MaxCtxCommits == 3
MaxRuns == 2
MaxRows == 2
MaxSessions == 2
MaxCountLines == 3

-----------------------------------------------------------------------------
(* Text helpers *)

WS == {" ", "\t"}
DIGITS == {"0", "1", "2", "3", "4", "5", "6", "7", "8", "9"}
SIGNS == {"+", "-"}

Min(a, b) == IF a <= b THEN a ELSE b

Drop(s, n) == SubSeq(s, n + 1, Len(s))
Take(s, n) == SubSeq(s, 1, n)

RECURSIVE LStrip(_)
LStrip(s) == IF s # <<>> /\ Head(s) \in WS THEN LStrip(Tail(s)) ELSE s

RECURSIVE RStrip(_)
RStrip(s) == IF s # <<>> /\ s[Len(s)] \in WS THEN RStrip(Take(s, Len(s) - 1)) ELSE s

\* str.strip()
Strip(s) == RStrip(LStrip(s))

\* c in s, for a one-character c
HasChar(s, c) == \E i \in 1..Len(s) : s[i] = c

\* s.find(c) + 1 (0 when absent)
FirstIndex(s, c) == IF HasChar(s, c) THEN CHOOSE i \in 1..Len(s) : s[i] = c /\ \A j \in 1..(i - 1) : s[j] # c ELSE 0

\* s.split(c, maxsplit)
RECURSIVE Split(_, _, _)
Split(s, c, maxsplit) ==
    IF maxsplit = 0 \/ ~HasChar(s, c) THEN <<s>>
    ELSE LET i == FirstIndex(s, c)
         IN  <<Take(s, i - 1)>> \o Split(Drop(s, i), c, maxsplit - 1)

\* s.startswith(c), for a one-character c
StartsWith(s, c) == s # <<>> /\ Head(s) = c

\* the longest prefix of s made of digits
RECURSIVE DigitRun(_)
DigitRun(s) == IF s # <<>> /\ Head(s) \in DIGITS THEN <<Head(s)>> \o DigitRun(Tail(s)) ELSE <<>>

\* whether [+-]?\d+ matches at the start of s
SignedNumberAt(s) ==
    \/ s # <<>> /\ Head(s) \in DIGITS
    \/ Len(s) >= 2 /\ s[1] \in SIGNS /\ s[2] \in DIGITS

-----------------------------------------------------------------------------
(* The file-stat regular expression of _parse_git_log:                      *)
(*   \s*([^|]+)\s*\|\s*(\d+)\s*([+-]?\d+)\s*([+-]?\d+)?   with re.match     *)
(* Group 1 is the text before the first '|' (it must not be empty); the    *)
(* count (\d+) is greedy, but the next group needs a number of its own: if *)
(* none follows the count, the engine backtracks and gives the count's     *)
(* last digit to group 3.                                                  *)

NoMatch == [matched |-> FALSE, file |-> <<>>, changes |-> <<>>]

ReMatchStat(line) ==
    LET p == FirstIndex(line, "|")
    IN  IF p <= 1 THEN NoMatch
        ELSE LET before == Take(line, p - 1)
                 r1     == LStrip(Drop(line, p))
                 run    == DigitRun(r1)
                 after  == LStrip(Drop(r1, Len(run)))
             IN  IF run = <<>> THEN NoMatch
                 ELSE IF SignedNumberAt(after)
                      THEN [matched |-> TRUE, file |-> Strip(before), changes |-> run]
                 ELSE IF Len(run) >= 2
                      THEN [matched |-> TRUE, file |-> Strip(before),
                            changes |-> Take(run, Len(run) - 1)]
                 ELSE NoMatch

-----------------------------------------------------------------------------
(* _parse_git_log: one iteration of the for loop, and the flush after it   *)

NewCommit(parts) ==
    [hash |-> parts[1], author |-> parts[2], time_ago |-> parts[3],
     message |-> parts[4], files |-> <<>>]

\* the test of line 194 followed by the test of line 196
IsHeader(line) ==
    /\ HasChar(line, "|")
    /\ ~StartsWith(line, " ")
    /\ Len(Split(line, "|", 3)) >= 4

\* Flush without "current_commit = None": the flushed commit stays current
Flush_KeepsCurrent(st) ==
    IF st.current_commit # <<>>
    THEN [st EXCEPT !.commits = @ \o <<[st.current_commit[1] EXCEPT !.files = st.current_files]>>,
                    !.current_files = <<>>]
    ELSE st

Flush(st) ==
    IF st.current_commit # <<>>
    THEN [st EXCEPT !.commits = @ \o <<[st.current_commit[1] EXCEPT !.files = st.current_files]>>,
                    !.current_commit = <<>>,
                    !.current_files = <<>>]
    ELSE st

\* StartCommit without "current_files = []": the entries read before the
\* header stay in the list
StartCommit_KeepsFiles(st, line) ==
    [st EXCEPT !.current_commit = <<NewCommit(Split(line, "|", 3))>>]

\* a header line: current_commit is rebound, current_files is reset; the
\* commit that was being accumulated is not appended
StartCommit(st, line) ==
    [st EXCEPT !.current_commit = <<NewCommit(Split(line, "|", 3))>>,
               !.current_files = <<>>]

AppendFile(st, line) ==
    LET m == ReMatchStat(line)
    IN  IF m.matched
        THEN [st EXCEPT !.current_files = @ \o <<[file |-> m.file, changes |-> m.changes]>>]
        ELSE st

ParseStep(st, line) ==
    IF Strip(line) = <<>> THEN Flush(st)
    ELSE IF HasChar(line, "|") /\ ~StartsWith(line, " ")
         THEN IF Len(Split(line, "|", 3)) >= 4 THEN StartCommit(st, line) ELSE st
    ELSE IF StartsWith(Strip(line), "|") \/ HasChar(line, "|")
         THEN AppendFile(st, line)
    ELSE st

ParseInit == [commits |-> <<>>, current_commit |-> <<>>, current_files |-> <<>>]

RECURSIVE ParseFrom(_, _)
ParseFrom(st, lines) ==
    IF lines = <<>> THEN Flush(st) ELSE ParseFrom(ParseStep(st, Head(lines)), Tail(lines))

\* _parse_git_log(log_output), on the lines of log_output
ParseGitLog(lines) == ParseFrom(ParseInit, lines).commits

-----------------------------------------------------------------------------
(* Flat-mode parsing: the loop of AIJournalGenerator.get_git_commits over  *)
(* result.stdout.strip().split('\n')                                       *)

RECURSIVE DropBlankHead(_)
DropBlankHead(lines) ==
    IF lines # <<>> /\ Strip(Head(lines)) = <<>> THEN DropBlankHead(Tail(lines)) ELSE lines

RECURSIVE DropBlankTail(_)
DropBlankTail(lines) ==
    IF lines # <<>> /\ Strip(lines[Len(lines)]) = <<>>
    THEN DropBlankTail(Take(lines, Len(lines) - 1)) ELSE lines

\* the lines of stdout.strip(): a line break is whitespace too, so the
\* whitespace-only lines at both ends go, and the first and the last line
\* left lose their outer whitespace; an empty text is one empty line
StripOutput(lines) ==
    LET kept == DropBlankTail(DropBlankHead(lines))
    IN  IF kept = <<>> THEN << <<>> >>
        ELSE [i \in 1..Len(kept) |->
                LET l1 == IF i = 1 THEN LStrip(kept[i]) ELSE kept[i]
                IN  IF i = Len(kept) THEN RStrip(l1) ELSE l1]

\* Flat records split on the first three delimiters only: the body stays in
\* the message
FlatRecord_SplitThree(line, repo) ==
    LET parts == Split(line, "|", 3)
    IN  [hash |-> parts[1], author |-> parts[2], date |-> parts[3], message |-> parts[4],
         body |-> <<>>, repo |-> repo]

FlatRecord(line, repo) ==
    LET parts == Split(line, "|", 4)
    IN  [hash |-> parts[1], author |-> parts[2], date |-> parts[3], message |-> parts[4],
         body |-> IF Len(parts) > 4 THEN parts[5] ELSE <<>>, repo |-> repo]

RECURSIVE FlatLoop(_, _)
FlatLoop(lines, repo) ==
    IF lines = <<>> THEN <<>>
    ELSE LET line == Head(lines)
         IN  IF line = <<>> \/ ~HasChar(line, "|") THEN FlatLoop(Tail(lines), repo)
             ELSE IF Len(Split(line, "|", 4)) >= 4
                  THEN <<FlatRecord(line, repo)>> \o FlatLoop(Tail(lines), repo)
             ELSE FlatLoop(Tail(lines), repo)

\* lines 132-148, on the lines of result.stdout
ParseFlat(lines, repo) == FlatLoop(StripOutput(lines), repo)

-----------------------------------------------------------------------------
(* Sample lines of `git log --pretty=format:%h|%an|%ar|%s --stat`          *)

Blank == <<>>
H1 == <<"a", "|", "x", "|", "1", "|", "m">>
H2 == <<"b", "|", "y", "|", "2", "|", "n", "|", "k">>
S1 == <<" ", "f", " ", "|", " ", "1", "0", " ", "+", "5", " ", "-", "3">>
S2 == <<" ", "g", " ", "|", " ", "3", " ", "+", "1">>
G1 == <<" ", "e", " ", "|", " ", "1", "2", " ", "+", "+", "-">>
Sum == <<" ", "1", " ", "f", "i", "l", "e">>

StatLines == {Blank, H1, H2, S1, S2, G1, Sum}

(* Sample lines of `git log --pretty=format:%h|%an|%ad|%s|%b`               *)
F3 == <<"c", "|", "x", "|", "1">>
F4 == <<"c", "|", "x", "|", "1", "|", "m">>
F5 == <<"d", "|", "y", "|", "2", "|", "n", "|", "b">>
F6 == <<"e", "|", "z", "|", "3", "|", "o", "|", "b", "|", "k">>
FL == <<" ", "c", "|", "x", "|", "1", "|", "m", "|">>
FT == <<"d", "|", "y", "|", "2", "|", "n", "|", "b", " ">>
NoDelim == <<"t">>
Space == <<" ">>

FlatLines == {Blank, Space, NoDelim, F3, F4, F5, F6, FL, FT}

RECURSIVE SeqsUpTo(_, _)
SeqsUpTo(S, n) ==
    IF n = 0 THEN {<<>>}
    ELSE LET shorter == SeqsUpTo(S, n - 1)
         IN  shorter \cup {Append(s, x) : s \in {t \in shorter : Len(t) = n - 1}, x \in S}

-----------------------------------------------------------------------------
(* The commit extractor: what `git log` prints for the command built in    *)
(* get_git_commits, and the two get_git_commits and get_file_modifications *)

ScriptDir == "script_dir"
WorkspaceRoot == "workspace_root"
Repos == {"r1", "r2"}
SinceDate == "d1"
UntilDates == {"None", "d2"}
CacheKeys == Repos \X {SinceDate} \X UntilDates

\* A repository's non-merge commits in the date window, most recent first;
\* each is of one kind:
\*   "plain"  changes a file, has no body
\*   "empty"  changes no file (git commit --allow-empty), has no body
\*   "table"  changes a file; its body has a line with three delimiters
CommitKinds == {"plain", "empty", "table"}
Histories == SeqsUpTo(CommitKinds, MaxCommits)

DefaultMaxCommits == 50

\* self.config.get("max_commits_per_repo", 50)
MaxCommitsPerRepo(cfg) == IF cfg = <<>> THEN DefaultMaxCommits ELSE cfg[1]

\* "-n", str(max_commits) is passed only when max_commits is truthy
GitLimit(hist, cfg) ==
    IF MaxCommitsPerRepo(cfg) # 0 THEN Take(hist, Min(Len(hist), MaxCommitsPerRepo(cfg)))
    ELSE hist

HashChars == <<"1", "2", "3", "4", "5", "6", "7", "8", "9">>
HashOf(i) == <<HashChars[i]>>

GitStatFile == <<" ", "f", " ", "|", " ", "1", " ", "+">>
GitBodyTable == <<"|", "c", "|", "a", "|", "b", "|">>

\* --pretty=format:%h|%an|%ar|%s --stat: the header, then the commit's
\* stat block (if it changes a file) followed by a blank line when another
\* commit follows; a commit that changes no file is its header alone
RECURSIVE GitLogStatFrom(_, _)
GitLogStatFrom(hist, i) ==
    IF i > Len(hist) THEN <<>>
    ELSE LET header == HashOf(i) \o <<"|", "x", "|", "1", "|", "m">>
             block  == IF hist[i] = "empty" THEN <<header>>
                       ELSE <<header, GitStatFile, Sum>>
                            \o (IF i < Len(hist) THEN <<Blank>> ELSE <<>>)
         IN  block \o GitLogStatFrom(hist, i + 1)

GitLogStat(hist) == GitLogStatFrom(hist, 1)

\* --pretty=format:%h|%an|%ad|%s|%b: one line per commit, followed by the
\* rest of its body, if any, and a blank line when another commit follows
RECURSIVE GitLogFlatFrom(_, _)
GitLogFlatFrom(hist, i) ==
    IF i > Len(hist) THEN <<>>
    ELSE LET head == HashOf(i) \o <<"|", "x", "|", "1", "|", "m", "|">>
             block == IF hist[i] = "table"
                      THEN <<head \o <<"b">>, GitBodyTable>>
                           \o (IF i < Len(hist) THEN <<Blank>> ELSE <<>>)
                      ELSE <<head>>
         IN  block \o GitLogFlatFrom(hist, i + 1)

GitLogFlat(hist) == GitLogFlatFrom(hist, 1)

\* What happens in the try block: "ok" (git exits 0), "nonzero" (git exits
\* non-zero), or an exception: os.chdir fails, subprocess.run times out or
\* cannot start git
Outcomes == {"ok", "nonzero", "chdir_fail", "timeout", "spawn_error"}

ExceptionOf(outcome) ==
    CASE outcome = "chdir_fail"  -> "FileNotFoundError"
      [] outcome = "timeout"     -> "TimeoutExpired"
      [] outcome = "spawn_error" -> "OSError"
      [] OTHER                   -> "none"

SubprocessErrors == {"TimeoutExpired", "SubprocessError"}
Exceptions == {"FileNotFoundError", "OSError", "KeyError", "ValueError"} \cup SubprocessErrors

\* only the first except clause of the static get_git_commits
StaticCatches_SubprocessOnly(exc) == exc \in SubprocessErrors

\* except (subprocess.TimeoutExpired, subprocess.SubprocessError) / except Exception
StaticCatches(exc) == exc \in SubprocessErrors \/ exc \in Exceptions

\* except Exception
NarrativeCatches(exc) == exc \in Exceptions

\* the working directory when the try block is left
BodyCwd(outcome, repo, before) == IF outcome = "chdir_fail" THEN before ELSE repo

\* no finally clause: the directory the try block left stays
FinallyCwd_Missing(after_body) == after_body

\* finally: os.chdir(self.workspace_root)
FinallyCwd(after_body) == WorkspaceRoot

-----------------------------------------------------------------------------
(* The context assembler: AIJournalGenerator._prepare_ai_context. A dict   *)
(* is a sequence of [key, items] entries in insertion order.               *)

\* commit.get('repo', 'unknown'): the repo field is <<>> when the key is absent
RepoOf(commit) == IF commit.repo = <<>> THEN "unknown" ELSE commit.repo[1]

HasKey(dict, k) == \E i \in 1..Len(dict) : dict[i].key = k

KeyIndex(dict, k) == CHOOSE i \in 1..Len(dict) : dict[i].key = k

\* grouping that skips a commit equal to one already in its group
AddToGroup_Dedup(dict, commit) ==
    LET repo == RepoOf(commit)
    IN  IF ~HasKey(dict, repo) THEN Append(dict, [key |-> repo, items |-> <<commit>>])
        ELSE IF \E j \in 1..Len(dict[KeyIndex(dict, repo)].items) :
                    dict[KeyIndex(dict, repo)].items[j] = commit
             THEN dict
        ELSE [dict EXCEPT ![KeyIndex(dict, repo)].items = Append(@, commit)]

\* lines 296-299: one iteration of the grouping loop
AddToGroup(dict, commit) ==
    LET repo == RepoOf(commit)
        d1   == IF ~HasKey(dict, repo) THEN Append(dict, [key |-> repo, items |-> <<>>])
                ELSE dict
    IN  [d1 EXCEPT ![KeyIndex(d1, repo)].items = Append(@, commit)]

RECURSIVE GroupCommits(_, _)
GroupCommits(dict, cs) ==
    IF cs = <<>> THEN dict ELSE GroupCommits(AddToGroup(dict, Head(cs)), Tail(cs))

PrepareAiContext(target_date, cs, plans, cursor_activity) ==
    [date |-> target_date,
     commits |-> cs,
     commits_by_repo |-> GroupCommits(<<>>, cs),
     total_commits |-> Len(cs),
     cursor_plans |-> plans,
     cursor_activity |-> cursor_activity,
     workspace |-> WorkspaceRoot]

\* the commits of the sample inputs: two hashes, of repository r1, of r2, or
\* without a repo key
CtxCommits == {[hash |-> h, repo |-> r] : h \in {"1", "2"}, r \in {<<>>, <<"r1">>, <<"r2">>}}

-----------------------------------------------------------------------------
(* The repository locator: find_git_repos and _should_exclude of both      *)
(* programs. A path is its string, a sequence of characters.               *)

RootPath == <<"/", "w">>
DirA  == <<"/", "w", "/", "a">>
DirAB == <<"/", "w", "/", "a", "/", "b">>
DirNC == <<"/", "w", "/", "n", "m", "/", "c">>
DirC  == <<"/", "w", "/", "c">>

\* the directories that may be repository roots, in the order of a scan
DirOrder == <<DirA, DirAB, DirC, DirNC>>
Dirs == {DirOrder[i] : i \in 1..Len(DirOrder)}

GitDirName == <<"/", ".", "g", "i", "t">>

max_depth == 3

\* the number of path segments of p below the workspace root
DepthBelowRoot(p) == Cardinality({i \in (Len(RootPath) + 1)..Len(p) : p[i] = "/"})

\* sub in s, for strings
IsSubstring(sub, s) ==
    \E i \in 0..(Len(s) - Len(sub)) : SubSeq(s, i + 1, i + Len(sub)) = sub

IsPrefix(pre, s) == Len(pre) <= Len(s) /\ Take(s, Len(pre)) = pre

\* s.replace(old, "")
RECURSIVE Remove(_, _)
Remove(s, old) ==
    IF s = <<>> THEN <<>>
    ELSE IF IsPrefix(old, s) THEN Remove(Drop(s, Len(old)), old)
    ELSE <<Head(s)>> \o Remove(Tail(s), old)

\* pattern.replace("**/", "").replace("/**", "")
StripMarkers(pattern) ==
    Remove(Remove(pattern, <<"*", "*", "/">>), <<"/", "*", "*">>)

LastSlash(p) == CHOOSE i \in 1..Len(p) : p[i] = "/" /\ \A j \in (i + 1)..Len(p) : p[j] # "/"

\* Path(p).parent and Path(p).name, for an absolute path below the root
Parent(p) == Take(p, LastSlash(p) - 1)
PathName(p) == Drop(p, LastSlash(p))

\* _should_exclude(path), for a list of patterns
ShouldExclude(path, patterns) ==
    \E i \in 1..Len(patterns) : IsSubstring(StripMarkers(patterns[i]), path)

\* the name filter comparing the whole path, not its final segment
ExcludedByName_WholePath(path, excluded) ==
    \E i \in 1..Len(excluded) : excluded[i] = path

\* r.name in excluded
ExcludedByName(path, excluded) ==
    \E i \in 1..Len(excluded) : excluded[i] = PathName(path)

\* the lines `find root -maxdepth 6 -type d -name .git` prints for a tree
FindOutput(t) ==
    LET Hit(d) == d \in t /\ DepthBelowRoot(d \o GitDirName) <= max_depth * 2
    IN  [i \in 1..Len(SelectSeq(DirOrder, Hit)) |-> SelectSeq(DirOrder, Hit)[i] \o GitDirName]

DirNM == <<"/", "w", "/", "n", "m">>

\* the directories of the sample trees, in the order os.walk lists them
WalkDirs == <<DirA, DirAB, DirC, DirNM, DirNC>>

\* the subdirectories of d
SubDirs(d) == SelectSeq(WalkDirs, LAMBDA c : Parent(c) = d)

RECURSIVE WalkNoPrune(_, _), WalkAllNoPrune(_, _)
\* the walk without `dirs[:] = []`: it descends below a repository root
WalkNoPrune(d, t) ==
    (IF d \in t THEN <<d>> ELSE <<>>) \o WalkAllNoPrune(SubDirs(d), t)

WalkAllNoPrune(ds, t) ==
    IF ds = <<>> THEN <<>> ELSE WalkNoPrune(Head(ds), t) \o WalkAllNoPrune(Tail(ds), t)

WalkRoots_NoPrune(t) == WalkNoPrune(RootPath, t)

RECURSIVE Walk(_, _), WalkAll(_, _)
\* lines 110-116, from directory d down: a directory that holds .git is a
\* candidate and `dirs[:] = []` ends the descent below it
Walk(d, t) ==
    IF d \in t THEN <<d>> ELSE WalkAll(SubDirs(d), t)

WalkAll(ds, t) ==
    IF ds = <<>> THEN <<>> ELSE Walk(Head(ds), t) \o WalkAll(Tail(ds), t)

\* the directories for which os.walk(workspace_root) finds '.git' in dirs
WalkRoots(t) == Walk(RootPath, t)

\* What the scan does: "ok" (find prints every .git directory), "partial"
\* (find exits non-zero having printed some of them), "timeout"
\* (subprocess.TimeoutExpired), "spawn_error" (find cannot be started: OSError)
ScanOutcomes == {"ok", "partial", "timeout", "spawn_error"}

\* the candidates of the find branch (lines 101-106), from the printed lines
FindCandidates(lines) == [i \in 1..Len(lines) |-> Parent(lines[i])]

\* find_git_repos of `prog`, for the scan outcome and the lines find printed.
\* The static _should_exclude reads config["exclude_patterns"] and raises
\* KeyError when it is absent; the narrative one defaults to [].
FindGitRepos(prog, t, patterns_cfg, projects_cfg, scan, printed) ==
    LET patterns   == IF patterns_cfg = <<>> THEN <<>> ELSE patterns_cfg[1]
        excluded   == IF projects_cfg = <<>> THEN <<>> ELSE projects_cfg[1]
        Kept(d)    == ~ShouldExclude(d, patterns)
        Named(d)   == ~ExcludedByName(d, excluded)
        candidates == CASE scan \in {"ok", "partial"} -> FindCandidates(printed)
                        [] scan = "timeout" /\ prog = "static" -> WalkRoots(t)
                        [] OTHER -> <<>>
        exc        == IF scan = "spawn_error" THEN "OSError"
                      ELSE IF prog = "static" /\ patterns_cfg = <<>> /\ candidates # <<>>
                           THEN "KeyError"
                      ELSE "none"
    IN  [scan |-> scan,
         exc |-> exc,
         repos |-> IF exc = "none" THEN SelectSeq(SelectSeq(candidates, Kept), Named) ELSE <<>>]

PatternNm   == <<"*", "*", "/", "n", "m", "/", "*", "*">>
PatternAB   == <<"a", "/", "b">>
PatternAll  == <<"*", "*", "/">>

PatternChoices == {<<>>, << <<>> >>, << <<PatternNm>> >>, << <<PatternAB, PatternNm>> >>,
                   << <<PatternAll>> >>}
ProjectChoices == {<<>>, << <<>> >>, << << <<"c">> >> >>, << << <<"a">>, <<"b">> >> >>}

-----------------------------------------------------------------------------
(* One run of main() of either program, for a single target date           *)

Providers == {"anthropic", "openai", "other"}
ApiKeys == {"missing", "invalid", "valid"}

\* what a run finds: whether the config file exists, the configured
\* ai_provider, which client packages import, the API key of that provider
\* (in the environment or the config), and whether the provider's service
\* answers
Environments ==
    [config_file : BOOLEAN, provider : Providers, has_anthropic : BOOLEAN,
     has_openai : BOOLEAN, api_key : ApiKeys, provider_up : BOOLEAN]

StaticEnvironments ==
    {e \in Environments : e.provider = "anthropic" /\ e.has_anthropic /\ e.has_openai
                          /\ e.api_key = "valid" /\ e.provider_up}

NoFailure == [op |-> "none", exc |-> "none", cause |-> "none"]

\* _setup_ai_client: the key is only tested for being non-empty
SetupAiClient(e) ==
    IF e.provider = "anthropic" /\ e.has_anthropic
    THEN (IF e.api_key = "missing"
          THEN [op |-> "__init__", exc |-> "ValueError", cause |-> "credentials"]
          ELSE NoFailure)
    ELSE IF e.provider = "openai" /\ e.has_openai
    THEN (IF e.api_key = "missing"
          THEN [op |-> "__init__", exc |-> "ValueError", cause |-> "credentials"]
          ELSE NoFailure)
    ELSE [op |-> "__init__", exc |-> "ValueError", cause |-> "provider_unavailable"]

\* __init__ of `prog`: _load_config, then (narrative) _setup_ai_client
ConstructGenerator(prog, e) ==
    IF ~e.config_file
    THEN [op |-> "__init__", exc |-> "FileNotFoundError", cause |-> "config"]
    ELSE IF prog = "narrative" THEN SetupAiClient(e)
    ELSE NoFailure

\* _call_anthropic / _call_openai: the request fails when the service
\* rejects the key or does not answer
CallProvider(e) ==
    IF e.api_key # "valid"
    THEN [op |-> "generate_ai_journal_entry", exc |-> "AuthenticationError",
          cause |-> "credentials"]
    ELSE IF ~e.provider_up
    THEN [op |-> "generate_ai_journal_entry", exc |-> "APIConnectionError",
          cause |-> "provider_unavailable"]
    ELSE NoFailure

\* the exception find_git_repos lets through, as main catches it
ScanFailure(f) ==
    IF f.exc = "none" THEN NoFailure
    ELSE [op |-> "find_git_repos", exc |-> f.exc,
          cause |-> IF f.exc = "KeyError" THEN "config" ELSE "scan"]

\* the collection operations after the scan: get_git_commits per
\* repository, get_cursor_plans, then get_file_modifications (static, for
\* the repositories that had commits) or get_cursor_activity (narrative)
CollectionsAfterScan(prog, repos, with_commits) ==
    (IF repos # <<>> THEN <<"get_git_commits">> ELSE <<>>)
    \o <<"get_cursor_plans">>
    \o (IF prog = "narrative" THEN <<"get_cursor_activity">>
        ELSE IF repos # <<>> /\ with_commits THEN <<"get_file_modifications">>
        ELSE <<>>)

-----------------------------------------------------------------------------
(* Invocations of main() of either program: the argument handling, the     *)
(* files written and the last-run marker                                   *)

\* the calendar days of the sample invocations, as datetime orders them
Calendar == <<"2024-02-28", "2024-02-29", "2024-03-01">>

\* the date arguments of the sample invocations: the calendar's spellings
\* and one that strptime accepts without zero padding
DateArgs == {Calendar[i] : i \in 1..Len(Calendar)} \cup {"2024-3-1"}

\* datetime.strptime(s, "%Y-%m-%d"), as a day number
StrPTime(s) == IF s = "2024-3-1" THEN 3 ELSE CHOOSE i \in 1..Len(Calendar) : Calendar[i] = s

\* d.strftime("%Y-%m-%d")
StrFTime(d) == Calendar[d]

\* self.output_dir / f"{target_date}_summary.md", .../f"{target_date}_journal.md"
SummaryFile(target_date) == <<target_date, "_summary.md">>
JournalFile(target_date) == <<target_date, "_journal.md">>

\* f"{args.start}_to_{args.end}", the name the static program saves a range under
RangeLabel(start, end) == start \o "_to_" \o end

\* `if args.start and args.end`
IsRange(a) == a.start # <<>> /\ a.end # <<>>

Invocations ==
    [start : {<<>>} \cup {<<d>> : d \in DateArgs},
     end : {<<>>} \cup {<<d>> : d \in DateArgs},
     date : DateArgs]

-----------------------------------------------------------------------------
(* The static document: generate_summary, _format_summary and save_summary *)
(* of DailyJournalGenerator. A document is a sequence of lines, each the   *)
(* f-string that produced it (kind) and its interpolated text.             *)

DigitChar(d) == <<"0", "1", "2", "3", "4", "5", "6", "7", "8", "9">>[d + 1]

\* str(n) for a natural number
RECURSIVE Digits(_)
Digits(n) == IF n < 10 THEN <<DigitChar(n)>> ELSE Digits(n \div 10) \o <<DigitChar(n % 10)>>

\* the times at which the sample runs take place
ClockTimes == {1, 2, 25}

\* git's %ar for a commit made `age` hours ago: whole hours below 36
\* hours ("h" for " hours ago"), whole days, rounded, from there ("d")
RelativeDate(age) ==
    IF age < 36 THEN Digits(age) \o <<"h">> ELSE Digits((age + 12) \div 24) \o <<"d">>

\* --pretty=format:%h|%an|%ar|%s --stat printed `age` hours after the commits
RECURSIVE GitLogStatAged(_, _, _)
GitLogStatAged(hist, i, age) ==
    IF i > Len(hist) THEN <<>>
    ELSE LET header == HashOf(i) \o <<"|", "x", "|">> \o RelativeDate(age) \o <<"|", "m">>
             block  == IF hist[i] = "empty" THEN <<header>>
                       ELSE <<header, GitStatFile, Sum>>
                            \o (IF i < Len(hist) THEN <<Blank>> ELSE <<>>)
         IN  block \o GitLogStatAged(hist, i + 1, age)

\* get_git_commits(repo, target_date) of the static program when git exits 0,
\* with the default max_commits_per_repo
ExtractAt(hist, age) == ParseGitLog(GitLogStatAged(GitLimit(hist, <<>>), 1, age))

\* the repositories find_git_repos returned, in its order
RepoList == <<"r1", "r2">>

\* what `find plans_dir -type f -name "*.plan.md" -mtime -1` prints at time
\* `now`: the files whose age in whole days is less than 1
FindMtimeLastDay(files, now) ==
    LET Recent(f) == (now - f.mtime) \div 24 < 1 IN SelectSeq(files, Recent)

\* the plan records of the static get_cursor_plans, lines 254-259
RECURSIVE PlanRecords(_)
PlanRecords(files) ==
    IF files = <<>> THEN <<>>
    ELSE <<[file |-> Head(files).file, metadata |-> Head(files).metadata]>>
         \o PlanRecords(Tail(files))

\* generate_summary, lines 341-349: a repository enters repo_data only
\* `if commits`, keeping every repository
RECURSIVE RepoData_AllRepos(_, _)
RepoData_AllRepos(repos, ext) ==
    IF repos = <<>> THEN <<>>
    ELSE <<[repo |-> Head(repos), path |-> Head(repos), commits |-> ext[Head(repos)],
            file_modifications |-> <<>>]>>
         \o RepoData_AllRepos(Tail(repos), ext)

\* generate_summary, lines 341-349: repo_data, in insertion order
RECURSIVE RepoData(_, _)
RepoData(repos, ext) ==
    IF repos = <<>> THEN <<>>
    ELSE (IF ext[Head(repos)] # <<>>
          THEN <<[repo |-> Head(repos), path |-> Head(repos), commits |-> ext[Head(repos)],
                  file_modifications |-> <<>>]>>
          ELSE <<>>)
         \o RepoData(Tail(repos), ext)

\* generate_summary, lines 355-358: data['file_modifications'] is set only
\* `if file_mods`
RECURSIVE WithFileModifications(_, _)
WithFileModifications(rd, mods) ==
    IF rd = <<>> THEN <<>>
    ELSE <<[Head(rd) EXCEPT !.file_modifications = mods[Head(rd).repo]]>>
         \o WithFileModifications(Tail(rd), mods)

Line(kind, text) == [kind |-> kind, text |-> text]

\* lines 392-393, for the first ten files of a commit
RECURSIVE FileLines(_)
FileLines(fs) ==
    IF fs = <<>> THEN <<>>
    ELSE <<Line("file", Head(fs).file \o <<" ", "(">> \o Head(fs).changes \o <<")">>)>>
         \o FileLines(Tail(fs))

\* lines 386-397
RECURSIVE CommitLines(_)
CommitLines(cs) ==
    IF cs = <<>> THEN <<>>
    ELSE LET c == Head(cs)
         IN  <<Line("commit_title", c.message),
               Line("commit", c.hash \o <<" ", "-", " ">> \o c.author \o <<",", " ">>
                              \o c.time_ago)>>
             \o (IF c.files # <<>>
                 THEN <<Line("files_changed", <<>>)>>
                      \o FileLines(Take(c.files, Min(10, Len(c.files))))
                      \o (IF Len(c.files) > 10
                          THEN <<Line("more_files", Digits(Len(c.files) - 10))>>
                          ELSE <<>>)
                 ELSE <<>>)
             \o CommitLines(Tail(cs))

\* lines 400-404
RECURSIVE UncommittedLines(_)
UncommittedLines(ms) ==
    IF ms = <<>> THEN <<>>
    ELSE <<Line("uncommitted", Head(ms).file \o <<" ", "(">> \o Head(ms).status \o <<")">>)>>
         \o UncommittedLines(Tail(ms))

\* lines 375-406: one section per entry of repo_data
RECURSIVE ProjectSections(_)
ProjectSections(rd) ==
    IF rd = <<>> THEN <<>>
    ELSE LET d == Head(rd)
         IN  <<Line("project", <<d.repo>>), Line("location", <<d.path>>),
               Line("work_completed", <<>>)>>
             \o CommitLines(d.commits)
             \o (IF d.file_modifications # <<>>
                 THEN <<Line("uncommitted_changes", <<>>)>>
                      \o UncommittedLines(d.file_modifications)
                 ELSE <<>>)
             \o ProjectSections(Tail(rd))

\* lines 411-415: plan['metadata'].get('name', plan['file']) and the overview
RECURSIVE PlanLines(_)
PlanLines(ps) ==
    IF ps = <<>> THEN <<>>
    ELSE LET pl == Head(ps)
         IN  <<Line("plan", IF pl.metadata.name # <<>> THEN pl.metadata.name[1]
                            ELSE <<pl.file>>),
               Line("plan_file", <<pl.file>>)>>
             \o (IF pl.metadata.overview # <<>>
                 THEN <<Line("plan_overview", pl.metadata.overview[1])>> ELSE <<>>)
             \o PlanLines(Tail(ps))

RECURSIVE TotalCommits(_)
TotalCommits(rd) ==
    IF rd = <<>> THEN 0 ELSE Len(Head(rd).commits) + TotalCommits(Tail(rd))

\* _format_summary(target_date, end_date, repo_data, plans), with the text
\* of datetime.now().strftime(...) given as `stamp`
FormatSummary(target_date, end_date, rd, plans, stamp) ==
    <<Line("title", <<target_date>>
                    \o (IF end_date # <<>> THEN <<" to ", end_date[1]>> ELSE <<>>)),
      Line("generated_on", stamp),
      Line("analyzed", Digits(Len(rd)))>>
    \o ProjectSections(rd)
    \o (IF plans # <<>> THEN <<Line("cursor_plans", <<>>)>> \o PlanLines(plans) ELSE <<>>)
    \o <<Line("total_repositories", Digits(Len(rd))),
         Line("total_commits", Digits(TotalCommits(rd))),
         Line("plan_count", Digits(Len(plans))),
         Line("generated", stamp)>>

\* the target date of the sample runs
TargetDate == Calendar[1]

\* the histories of the sample repositories: commits that change a file
\* and commits that change none
DocHistories == SeqsUpTo({"plain", "empty"}, MaxCommits)

PlanSamples ==
    {<<>>,
     <<[file |-> "p.plan.md", mtime |-> 0,
        metadata |-> [name |-> <<>>, overview |-> << <<"o">> >>]]>>}

-----------------------------------------------------------------------------
(* The plan collector: get_cursor_plans of both programs. Times are hours  *)
(* of local time; a calendar day is 24 of them.                            *)

EndsWith(s, suffix) ==
    Len(suffix) <= Len(s) /\ SubSeq(s, Len(s) - Len(suffix) + 1, Len(s)) = suffix

\* -name "*.plan.md" and glob("*.plan.md")
IsPlanName(name) == EndsWith(name, <<".", "p", "l", "a", "n", ".", "m", "d">>)

\* datetime.fromtimestamp(mtime).date(), as a day number
DayOf(hour) == hour \div 24

\* find ... -mtime -1 at time t: the age in whole days is less than 1
MtimeLastDay(f, t) == (t - f.mtime) \div 24 < 1

\* the static get_cursor_plans(target) at time t: the directory test, the
\* find command and the loop over its output; a file that cannot be read
\* is skipped, a timeout of find leaves the list empty
StaticCursorPlans(dir, target, t, scan) ==
    IF ~dir.exists \/ scan = "timeout" THEN <<>>
    ELSE SelectSeq(dir.files,
                   LAMBDA f : IsPlanName(f.name) /\ MtimeLastDay(f, t) /\ f.readable)

\* the narrative get_cursor_plans(target): the directory test and the loop
\* over glob("*.plan.md") comparing mtime.date() with the target date
NarrativeCursorPlans(dir, target) ==
    IF ~dir.exists THEN <<>>
    ELSE SelectSeq(dir.files,
                   LAMBDA f : IsPlanName(f.name) /\ DayOf(f.mtime) = target /\ f.readable)

PlanName == <<"a", ".", "p", "l", "a", "n", ".", "m", "d">>
NotesName == <<"n", ".", "m", "d">>

\* the files of the sample directories: a plan and a file that is none,
\* modified late on day 0 or on day 1, readable or not
PlanFileChoices ==
    [name : {PlanName, NotesName}, mtime : {23, 30}, readable : BOOLEAN]

PlanDirs ==
    {[exists |-> x, files |-> fs] : x \in BOOLEAN, fs \in SeqsUpTo(PlanFileChoices, 1)}
    \cup {[exists |-> TRUE,
           files |-> <<[name |-> PlanName, mtime |-> 23, readable |-> TRUE],
                       [name |-> PlanName, mtime |-> 30, readable |-> TRUE]>>]}

\* the times of the sample calls: day 1 and day 2
CallTimes == {31, 47, 50}
TargetDays == 0..2

-----------------------------------------------------------------------------
(* The activity collector: get_cursor_activity, and the parts of           *)
(* _create_journal_prompt and _format_journal that read its bundle. A dict *)
(* is a function from its keys; {} is the function with no key.            *)

EmptyDict == <<>>

\* d.get(k): <<>> for None, <<v>> for a value
DictGet(d, k) == IF k \in DOMAIN d THEN <<d[k]>> ELSE <<>>

\* bool(d.get(k)) for a dict of lists
Truthy(d, k) == DictGet(d, k) # <<>> /\ DictGet(d, k)[1] # <<>>

\* the states of the store file: it does not exist, sqlite3.connect fails,
\* the query fails (not a database, no ai_code_hashes table), or it answers
StoreStates == {"absent", "unopenable", "query_fails", "ok"}

\* the target day's window of the query, [start_ts, end_ts), in hours
InWindow(ts) == 0 <= ts /\ ts < 24

\* SELECT ... WHERE timestamp >= ? AND timestamp < ? ORDER BY timestamp DESC,
\* for rows kept in descending order of timestamp
QueryRows(rows) == SelectSeq(rows, LAMBDA r : InWindow(r.timestamp))

\* lines 205-215: the records appended for the rows
RECURSIVE CodeGenerated(_)
CodeGenerated(rows) ==
    IF rows = <<>> THEN <<>>
    ELSE <<[file |-> Head(rows).fileName, timestamp |-> Head(rows).timestamp]>>
         \o CodeGenerated(Tail(rows))

\* lines 214-215: the set of the non-empty file names of the rows
FilesTouched(rows) ==
    {rows[i].fileName[1] : i \in {j \in 1..Len(rows) : rows[j].fileName # <<>>}}

\* list(s) for a set: its elements in some order
ListsOf(S) ==
    {l \in SeqsUpTo(S, Cardinality(S)) :
        Len(l) = Cardinality(S) /\ {l[i] : i \in 1..Len(l)} = S}

\* `self.config.get("use_cursor_logs", True)`; _load_config sets the default
UseCursorLogs(cfg) == IF cfg = <<>> THEN TRUE ELSE cfg[1]

\* get_cursor_activity without its try: a failure of the store raises
GetCursorActivity_NoTry(st, cfg, touched) ==
    IF st.state = "absent" \/ ~UseCursorLogs(cfg)
    THEN [raised |-> FALSE, bundle |-> EmptyDict]
    ELSE IF st.state # "ok"
    THEN [raised |-> TRUE, bundle |-> EmptyDict]
    ELSE [raised |-> FALSE,
          bundle |-> [code_generated |-> CodeGenerated(QueryRows(st.rows)),
                      files_touched |-> touched,
                      conversations |-> <<>>]]

\* get_cursor_activity(target_date); `touched` is the order in which
\* list(activity['files_touched']) lists the set
GetCursorActivity(st, cfg, touched) ==
    IF st.state = "absent" \/ ~UseCursorLogs(cfg)
    THEN [raised |-> FALSE, bundle |-> EmptyDict]
    ELSE [raised |-> FALSE,
          bundle |-> [code_generated |-> IF st.state = "ok"
                                         THEN CodeGenerated(QueryRows(st.rows))
                                         ELSE <<>>,
                      files_touched |-> IF st.state = "ok" THEN touched ELSE <<>>,
                      conversations |-> <<>>]]

\* _create_journal_prompt, lines 342-347: the lines added for the activity
PromptActivity(bundle) ==
    IF Truthy(bundle, "code_generated")
    THEN <<Line("generated_code_for", Digits(Len(bundle["code_generated"])))>>
         \o (IF Truthy(bundle, "files_touched")
             THEN <<Line("files_touched",
                         Take(bundle["files_touched"],
                              Min(10, Len(bundle["files_touched"]))))>>
             ELSE <<>>)
    ELSE <<>>

\* _format_journal, lines 421-422: the line added for the activity
DetailsActivity(bundle) ==
    IF Truthy(bundle, "code_generated")
    THEN <<Line("ai_generated_code", Digits(Len(bundle["code_generated"])))>>
    ELSE <<>>

ActivityRows == [fileName : {<<>>, <<"f">>, <<"g">>}, timestamp : {30, 10}]

\* rows in descending order of timestamp
Descending(rows) == \A i \in 1..(Len(rows) - 1) : rows[i].timestamp >= rows[i + 1].timestamp

Stores ==
    {[state |-> x, rows |-> <<>>] : x \in StoreStates \ {"ok"}}
    \cup {[state |-> "ok", rows |-> rs] :
             rs \in {r \in SeqsUpTo(ActivityRows, MaxRows) : Descending(r)}}

-----------------------------------------------------------------------------
(* The chat-context collector: get_cursor_chat_context                     *)

UpperCase == <<"C", "M">>
LowerCase == <<"c", "m">>

\* str.lower(), for the letters of the sample names
RECURSIVE Lower(_)
Lower(name) ==
    IF name = <<>> THEN <<>>
    ELSE (IF \E i \in 1..Len(UpperCase) : UpperCase[i] = Head(name)
          THEN <<LowerCase[CHOOSE i \in 1..Len(UpperCase) : UpperCase[i] = Head(name)]>>
          ELSE <<Head(name)>>)
         \o Lower(Tail(name))

\* 'message' in table.lower() or 'chat' in table.lower()
IsMessageTable(name) ==
    \/ IsSubstring(<<"m", "e", "s", "s", "a", "g", "e">>, Lower(name))
    \/ IsSubstring(<<"c", "h", "a", "t">>, Lower(name))

\* whether f"SELECT * FROM {table} LIMIT 5" is a statement sqlite executes:
\* the name, unquoted, must read as one identifier
SelectSucceeds(name) == ~HasChar(name, "-") /\ ~HasChar(name, " ")

\* lines 254-262: the loop over the tables, up to the first message-like
\* one; its SELECT raises when the statement cannot be executed
RECURSIVE ProbeTables(_)
ProbeTables(tables) ==
    IF tables = <<>> THEN "none"
    ELSE IF IsMessageTable(Head(tables))
         THEN (IF SelectSucceeds(Head(tables)) THEN "probe" ELSE "raised")
         ELSE ProbeTables(Tail(tables))

\* lines 239-267, for one session directory: no store.db, connect raises,
\* the sqlite_master query raises, or the tables are probed
ProbeSession(sess) ==
    IF sess.store = "ok" /\ ProbeTables(sess.tables) = "probe"
    THEN <<[session |-> sess.name, has_data |-> TRUE]>>
    ELSE <<>>

RECURSIVE ProbeSessions(_)
ProbeSessions(ss) ==
    IF ss = <<>> THEN <<>> ELSE ProbeSession(Head(ss)) \o ProbeSessions(Tail(ss))

\* `self.config.get("use_cursor_memory", True)`
UseCursorMemory(cfg) == IF cfg = <<>> THEN TRUE ELSE cfg[1]

\* get_cursor_chat_context(target_date), for an existing chats directory
GetCursorChatContext(ss, cfg) ==
    IF ~UseCursorMemory(cfg) THEN <<>> ELSE ProbeSessions(ss)

TableMeta == <<"m", "e", "t", "a">>
TableChats == <<"c", "h", "a", "t", "s">>
TableMessage == <<"M", "e", "s", "s", "a", "g", "e">>
TableChatLog == <<"c", "h", "a", "t", "-", "l", "o", "g">>

TableLists ==
    {<<>>, <<TableMeta>>, <<TableChats>>, <<TableMessage>>, <<TableChatLog>>,
     <<TableMeta, TableChats>>, <<TableChatLog, TableChats>>, <<TableChats, TableMessage>>}

\* a session directory's store: "missing" (no store.db), "unopenable"
\* (sqlite3.connect raises), "not_db" (the sqlite_master query raises), "ok"
SessionStores ==
    {[store |-> x, tables |-> <<>>] : x \in {"missing", "unopenable", "not_db"}}
    \cup {[store |-> "ok", tables |-> ts] : ts \in TableLists}

SessionNames == <<"s1", "s2", "s3", "s4">>

\* the session directories: stores, named by their position
SessionLists ==
    {[i \in 1..Len(l) |-> [name |-> SessionNames[i], store |-> l[i].store,
                           tables |-> l[i].tables]] :
        l \in SeqsUpTo(SessionStores, MaxSessions)}

-----------------------------------------------------------------------------
(* Specification of the stat-mode parser: the loop of _parse_git_log over  *)
(* any text of at most MaxLines sample lines                               *)

NoOp == [name |-> "none", repo |-> "none", until |-> "None", outcome |-> "none",
         hit |-> FALSE, n |-> 0]

IdleParse ==
    /\ log_output = <<>>
    /\ pos = 0
    /\ commits = <<>>
    /\ current_commit = <<>>
    /\ current_files = <<>>
    /\ ppc = "idle"

IdleGit ==
    /\ program = "static"
    /\ config_max = <<>>
    /\ cwd = ScriptDir
    /\ git_cache = [k \in CacheKeys |-> <<>>]
    /\ ret = <<>>
    /\ raised = FALSE
    /\ op = NoOp

IdleCtx ==
    /\ all_commits = <<>>
    /\ context = <<>>

NotFound == [scan |-> "none", exc |-> "none", repos |-> <<>>]

IdleLoc ==
    /\ tree = {}
    /\ exclude_patterns = <<>>
    /\ exclude_projects = <<>>
    /\ found = NotFound

IdleRun ==
    /\ env = [config_file |-> TRUE, provider |-> "anthropic", has_anthropic |-> TRUE,
              has_openai |-> TRUE, api_key |-> "valid", provider_up |-> TRUE]
    /\ pc = "idle"
    /\ exit_code = -1
    /\ failure = NoFailure
    /\ trail = <<>>
    /\ saved = FALSE

IdleMain ==
    /\ args = [start |-> <<>>, end |-> <<>>, date |-> Calendar[1]]
    /\ mpc = "idle"
    /\ current = 0
    /\ cache_file = <<>>
    /\ written = <<>>
    /\ status = -1
    /\ runs = 0

IdleDoc ==
    /\ clock = 0
    /\ repo_commits = <<>>
    /\ dirty = <<>>
    /\ plan_files = <<>>
    /\ extracted = <<>>
    /\ document = <<>>
    /\ summary_file = <<>>
    /\ documents = <<>>
    /\ dpc = "idle"

IdlePlans ==
    /\ plans_dir = [exists |-> FALSE, files |-> <<>>]
    /\ call_time = 0
    /\ plans_target = 0
    /\ plans_ret = <<>>
    /\ plans_scan = "idle"

IdleActivity ==
    /\ store = [state |-> "absent", rows |-> <<>>]
    /\ use_cursor_logs = <<>>
    /\ activity = <<>>
    /\ act_raised = FALSE
    /\ prompt = <<>>
    /\ apc = "idle"

IdleChats ==
    /\ sessions = <<>>
    /\ use_cursor_memory = <<>>
    /\ chats = <<"idle">>

IdleOther == IdleMain /\ IdleDoc /\ IdlePlans /\ IdleActivity /\ IdleChats

ParseState == [commits |-> commits, current_commit |-> current_commit,
               current_files |-> current_files]

InitParse ==
    /\ log_output \in SeqsUpTo(StatLines, MaxLines)
    /\ pos = 0
    /\ commits = <<>>
    /\ current_commit = <<>>
    /\ current_files = <<>>
    /\ ppc = "loop"

SetParseState(st) ==
    /\ commits' = st.commits
    /\ current_commit' = st.current_commit
    /\ current_files' = st.current_files

ParseLine ==
    /\ ppc = "loop"
    /\ pos < Len(log_output)
    /\ SetParseState(ParseStep(ParseState, log_output[pos + 1]))
    /\ pos' = pos + 1
    /\ UNCHANGED <<log_output, ppc>>
    /\ UNCHANGED <<gvars, cvars, lvars, rvars, ovars>>

ParseEnd ==
    /\ ppc = "loop"
    /\ pos = Len(log_output)
    /\ SetParseState(Flush(ParseState))
    /\ ppc' = "done"
    /\ UNCHANGED <<log_output, pos>>
    /\ UNCHANGED <<gvars, cvars, lvars, rvars, ovars>>

NextParse == ParseLine \/ ParseEnd

InitSpecParse == InitParse /\ IdleGit /\ IdleCtx /\ IdleLoc /\ IdleRun /\ IdleOther

SpecParse == InitSpecParse /\ [][NextParse]_vars

-----------------------------------------------------------------------------
(* _parse_git_log on short logs that carry every shape of an indented      *)
(* line: the file-stat line with both signed counts, with one, with none   *)
(* (two digits, one digit), the line git --stat prints, and the summary    *)

P1 == <<" ", "h", " ", "|", " ", "1", "2">>
P2 == <<" ", "k", " ", "|", " ", "5">>

CountLines == {Blank, H1, S1, S2, G1, P1, P2, Sum}

InitCount ==
    /\ log_output \in SeqsUpTo(CountLines, MaxCountLines)
    /\ pos = 0
    /\ commits = <<>>
    /\ current_commit = <<>>
    /\ current_files = <<>>
    /\ ppc = "loop"

InitSpecCount == InitCount /\ IdleGit /\ IdleCtx /\ IdleLoc /\ IdleRun /\ IdleOther

SpecCount == InitSpecCount /\ [][NextParse]_vars

-----------------------------------------------------------------------------
(* Specification of the flat-mode parser: lines 132-148 applied to any     *)
(* output of at most MaxFlatLines sample lines (log_output holds the lines  *)
(* of result.stdout, commits the records)                                  *)

FlatRepo == "r1"

InitFlat ==
    /\ log_output \in SeqsUpTo(FlatLines, MaxFlatLines)
    /\ pos = 0
    /\ commits = <<>>
    /\ current_commit = <<>>
    /\ current_files = <<>>
    /\ ppc = "loop"

ParseFlatOutput ==
    /\ ppc = "loop"
    /\ commits' = ParseFlat(log_output, FlatRepo)
    /\ ppc' = "done"
    /\ UNCHANGED <<log_output, pos, current_commit, current_files>>
    /\ UNCHANGED <<gvars, cvars, lvars, rvars, ovars>>

NextFlat == ParseFlatOutput

InitSpecFlat == InitFlat /\ IdleGit /\ IdleCtx /\ IdleLoc /\ IdleRun /\ IdleOther

SpecFlat == InitSpecFlat /\ [][NextFlat]_vars

-----------------------------------------------------------------------------
(* Specification of the commit extractor: one generator object of either   *)
(* program, whose get_git_commits and get_file_modifications are called in *)
(* any order, on any repository, with any outcome of the git call          *)

ConfigMaxChoices == {<<>>} \cup {<<m>> : m \in 0..MaxCommits}

\* __init__: os.chdir(script_dir), the configuration is loaded, the cache is empty
InitGenerator(configs) ==
    /\ program \in {"static", "narrative"}
    /\ config_max \in configs
    /\ cwd = ScriptDir
    /\ git_cache = [k \in CacheKeys |-> <<>>]
    /\ ret = <<>>
    /\ raised = FALSE
    /\ op = NoOp

\* get_git_commits without the cache test of lines 130-132
GetGitCommitsStatic_NoCache(repo, until, outcome, hist) ==
    LET key    == <<repo, SinceDate, until>>
        exc    == ExceptionOf(outcome)
        parsed == ParseGitLog(GitLogStat(GitLimit(hist, config_max)))
        caught == exc = "none" \/ StaticCatches(exc)
    IN  /\ program = "static"
        /\ ~raised
        /\ ret' = IF outcome = "ok" THEN parsed ELSE <<>>
        /\ raised' = ~caught
        /\ git_cache' = IF outcome = "ok"
                        THEN [git_cache EXCEPT ![key] = <<parsed>>]
                        ELSE git_cache
        /\ cwd' = FinallyCwd(BodyCwd(outcome, repo, cwd))
        /\ op' = [name |-> "get_git_commits", repo |-> repo, until |-> until,
                  outcome |-> outcome, hit |-> FALSE, n |-> Len(hist)]
        /\ UNCHANGED <<program, config_max>>

\* DailyJournalGenerator.get_git_commits(repo, SinceDate, until)
GetGitCommitsStatic(repo, until, outcome, hist) ==
    LET key == <<repo, SinceDate, until>>
    IN  /\ program = "static"
        /\ ~raised
        /\ IF git_cache[key] # <<>>
           THEN /\ ret' = git_cache[key][1]
                /\ raised' = FALSE
                /\ op' = [name |-> "get_git_commits", repo |-> repo, until |-> until,
                          outcome |-> "cached", hit |-> TRUE, n |-> Len(hist)]
                /\ UNCHANGED <<cwd, git_cache>>
           ELSE LET exc    == ExceptionOf(outcome)
                    parsed == ParseGitLog(GitLogStat(GitLimit(hist, config_max)))
                    caught == exc = "none" \/ StaticCatches(exc)
                IN  /\ ret' = IF outcome = "ok" THEN parsed ELSE <<>>
                    /\ raised' = ~caught
                    /\ git_cache' = IF outcome = "ok"
                                    THEN [git_cache EXCEPT ![key] = <<parsed>>]
                                    ELSE git_cache
                    /\ cwd' = FinallyCwd(BodyCwd(outcome, repo, cwd))
                    /\ op' = [name |-> "get_git_commits", repo |-> repo, until |-> until,
                              outcome |-> outcome, hit |-> FALSE, n |-> Len(hist)]
        /\ UNCHANGED <<program, config_max>>

\* AIJournalGenerator.get_git_commits(repo, SinceDate, until)
GetGitCommitsNarrative(repo, until, outcome, hist) ==
    LET exc    == ExceptionOf(outcome)
        parsed == ParseFlat(GitLogFlat(GitLimit(hist, config_max)), repo)
        caught == exc = "none" \/ NarrativeCatches(exc)
    IN  /\ program = "narrative"
        /\ ~raised
        /\ ret' = IF outcome = "ok" THEN parsed ELSE <<>>
        /\ raised' = ~caught
        /\ cwd' = FinallyCwd(BodyCwd(outcome, repo, cwd))
        /\ op' = [name |-> "get_git_commits", repo |-> repo, until |-> until,
                  outcome |-> outcome, hit |-> FALSE, n |-> Len(hist)]
        /\ UNCHANGED <<program, config_max, git_cache>>

\* DailyJournalGenerator.get_file_modifications(repo, SinceDate): `modified`
\* are the uncommitted files of the repository modified on the target date
GetFileModifications(repo, outcome, modified) ==
    LET exc    == ExceptionOf(outcome)
        caught == exc = "none" \/ exc \in Exceptions
    IN  /\ program = "static"
        /\ ~raised
        /\ ret' = IF outcome = "ok" THEN modified ELSE <<>>
        /\ raised' = ~caught
        /\ cwd' = FinallyCwd(BodyCwd(outcome, repo, cwd))
        /\ op' = [name |-> "get_file_modifications", repo |-> repo, until |-> "None",
                  outcome |-> outcome, hit |-> FALSE, n |-> 0]
        /\ UNCHANGED <<program, config_max, git_cache>>

ModifiedFiles == {<<>>, <<[file |-> <<"f">>, status |-> <<"M">>]>>}

\* the histories the calls of SpecGit see: a repository may gain a commit
\* between two calls
GitSamples == {<<"plain">>, <<"plain", "plain">>}

CallGitStatic ==
    /\ \E r \in Repos, u \in UntilDates, o \in Outcomes, h \in GitSamples :
          GetGitCommitsStatic(r, u, o, h)
    /\ UNCHANGED <<pvars, cvars, lvars, rvars, ovars>>

CallGitNarrative ==
    /\ \E r \in Repos, u \in UntilDates, o \in Outcomes, h \in GitSamples :
          GetGitCommitsNarrative(r, u, o, h)
    /\ UNCHANGED <<pvars, cvars, lvars, rvars, ovars>>

CallFileModifications ==
    /\ \E r \in Repos, o \in Outcomes, m \in ModifiedFiles :
          GetFileModifications(r, o, m)
    /\ UNCHANGED <<pvars, cvars, lvars, rvars, ovars>>

NextGit == CallGitStatic \/ CallGitNarrative \/ CallFileModifications

InitSpecGit == InitGenerator({<<>>, <<1>>}) /\ IdleParse /\ IdleCtx /\ IdleLoc /\ IdleRun /\ IdleOther

SpecGit == InitSpecGit /\ [][NextGit]_vars

-----------------------------------------------------------------------------
(* Specification of one extraction: a fresh generator of either program,   *)
(* any configured maximum, and one get_git_commits call on a repository    *)
(* with any history of at most MaxCommits commits                          *)

ExtractStatic ==
    /\ op = NoOp
    /\ \E r \in Repos, u \in UntilDates, o \in Outcomes, h \in Histories :
          GetGitCommitsStatic(r, u, o, h)
    /\ UNCHANGED <<pvars, cvars, lvars, rvars, ovars>>

ExtractNarrative ==
    /\ op = NoOp
    /\ \E r \in Repos, u \in UntilDates, o \in Outcomes, h \in Histories :
          GetGitCommitsNarrative(r, u, o, h)
    /\ UNCHANGED <<pvars, cvars, lvars, rvars, ovars>>

NextExtract == ExtractStatic \/ ExtractNarrative

InitSpecExtract == InitGenerator(ConfigMaxChoices) /\ IdleParse /\ IdleCtx /\ IdleLoc /\ IdleRun /\ IdleOther

SpecExtract == InitSpecExtract /\ [][NextExtract]_vars

-----------------------------------------------------------------------------
(* Specification of the context assembler: _prepare_ai_context on any      *)
(* sequence of at most MaxCtxCommits sample commits                        *)

InitCtx ==
    /\ all_commits \in SeqsUpTo(CtxCommits, MaxCtxCommits)
    /\ context = <<>>

PrepareContext ==
    /\ context = <<>>
    /\ context' = <<PrepareAiContext(SinceDate, all_commits, <<>>, <<>>)>>
    /\ UNCHANGED <<all_commits, pvars, gvars, lvars, rvars, ovars>>

NextCtx == PrepareContext

InitSpecCtx == InitCtx /\ IdleParse /\ IdleGit /\ IdleLoc /\ IdleRun /\ IdleOther

SpecCtx == InitSpecCtx /\ [][NextCtx]_vars

-----------------------------------------------------------------------------
(* Specification of the repository locator: find_git_repos of either       *)
(* program, on any set of repository roots, with any exclusion             *)
(* configuration and any outcome of the scan                               *)

SubSeqsOf(seq) ==
    {SelectSeq(seq, LAMBDA x : x \in keep) : keep \in SUBSET {seq[i] : i \in 1..Len(seq)}}

InitLocator(trees, patterns, projects) ==
    /\ tree \in trees
    /\ exclude_patterns \in patterns
    /\ exclude_projects \in projects
    /\ found = NotFound

\* find_git_repos()
FindGitReposCall ==
    /\ \E scan \in ScanOutcomes :
          \E printed \in (IF scan = "partial" THEN SubSeqsOf(FindOutput(tree))
                          ELSE {FindOutput(tree)}) :
             found' = FindGitRepos(program, tree, exclude_patterns, exclude_projects,
                                   scan, printed)
    /\ UNCHANGED <<tree, exclude_patterns, exclude_projects>>
    /\ UNCHANGED <<pvars, gvars, cvars, rvars, ovars>>

NextLocator == FindGitReposCall

InitSpecLocator ==
    /\ InitLocator(SUBSET Dirs, PatternChoices, ProjectChoices)
    /\ program \in {"static", "narrative"}
    /\ config_max = <<>>
    /\ cwd = ScriptDir
    /\ git_cache = [k \in CacheKeys |-> <<>>]
    /\ ret = <<>>
    /\ raised = FALSE
    /\ op = NoOp
    /\ IdleParse
    /\ IdleCtx
    /\ IdleRun
    /\ IdleOther

SpecLocator == InitSpecLocator /\ [][NextLocator]_vars

-----------------------------------------------------------------------------
(* Specification of a run: main() of either program for one target date,   *)
(* in any environment, on a workspace with or without repositories         *)

RunTrees == {{}, {DirA, DirC}}

InitSpecRun ==
    /\ program \in {"static", "narrative"}
    /\ env \in (IF program = "static" THEN StaticEnvironments ELSE Environments)
    /\ pc = "start"
    /\ exit_code = -1
    /\ failure = NoFailure
    /\ trail = <<>>
    /\ saved = FALSE
    /\ InitLocator(RunTrees, {<<>>, << <<>> >>}, {<<>>})
    /\ config_max = <<>>
    /\ cwd = ScriptDir
    /\ git_cache = [k \in CacheKeys |-> <<>>]
    /\ ret = <<>>
    /\ raised = FALSE
    /\ op = NoOp
    /\ IdleParse
    /\ IdleCtx
    /\ IdleOther

\* main caught an exception: the message is printed and sys.exit(1)
Abort(f) ==
    /\ failure' = f
    /\ exit_code' = 1
    /\ pc' = "exited"

\* generator = DailyJournalGenerator(args.config) / AIJournalGenerator(args.config)
Construct ==
    /\ pc = "start"
    /\ IF ConstructGenerator(program, env) # NoFailure
       THEN Abort(ConstructGenerator(program, env))
       ELSE pc' = "constructed" /\ UNCHANGED <<failure, exit_code>>
    /\ UNCHANGED <<env, trail, saved>>
    /\ UNCHANGED <<pvars, gvars, cvars, lvars, ovars>>

\* generate_summary / generate_journal: repos = self.find_git_repos()
FindRepos ==
    /\ pc = "constructed"
    /\ \E scan \in ScanOutcomes :
          \E printed \in (IF scan = "partial" THEN SubSeqsOf(FindOutput(tree))
                          ELSE {FindOutput(tree)}) :
             LET f == FindGitRepos(program, tree, exclude_patterns, exclude_projects,
                                   scan, printed)
             IN  /\ found' = f
                 /\ IF ScanFailure(f) # NoFailure
                    THEN Abort(ScanFailure(f))
                    ELSE pc' = "scanned" /\ UNCHANGED <<failure, exit_code>>
    /\ trail' = Append(trail, "find_git_repos")
    /\ UNCHANGED <<env, saved>>
    /\ UNCHANGED <<tree, exclude_patterns, exclude_projects>>
    /\ UNCHANGED <<pvars, gvars, cvars, ovars>>

\* the commit loop, the plans and the activity or file modifications: none
\* of them raises to generate_summary / generate_journal
Collect ==
    /\ pc = "scanned"
    /\ \E with_commits \in BOOLEAN :
          trail' = trail \o CollectionsAfterScan(program, found.repos, with_commits)
    /\ pc' = "collected"
    /\ UNCHANGED <<env, exit_code, failure, saved>>
    /\ UNCHANGED <<pvars, gvars, cvars, lvars, ovars>>

\* static: _format_summary; narrative: generate_ai_journal_entry, _format_journal
Generate ==
    /\ pc = "collected"
    /\ IF program = "narrative" /\ CallProvider(env) # NoFailure
       THEN Abort(CallProvider(env))
       ELSE pc' = "generated" /\ UNCHANGED <<failure, exit_code>>
    /\ UNCHANGED <<env, trail, saved>>
    /\ UNCHANGED <<pvars, gvars, cvars, lvars, ovars>>

\* save_summary (and update_cache) / save_journal, then main returns
Save ==
    /\ pc = "generated"
    /\ saved' = TRUE
    /\ exit_code' = 0
    /\ pc' = "exited"
    /\ UNCHANGED <<env, failure, trail>>
    /\ UNCHANGED <<pvars, gvars, cvars, lvars, ovars>>

NextRun == Construct \/ FindRepos \/ Collect \/ Generate \/ Save

SpecRun == InitSpecRun /\ [][NextRun]_vars

-----------------------------------------------------------------------------
(* Specification of a sequence of invocations of the two programs, which   *)
(* share the output directory and the last-run marker of one configuration *)

InitSpecMain ==
    /\ program \in {"static", "narrative"}
    /\ args = [start |-> <<>>, end |-> <<>>, date |-> Calendar[1]]
    /\ mpc = "exited"
    /\ current = 0
    /\ cache_file = <<>>
    /\ written = <<>>
    /\ status = 0
    /\ runs = 0
    /\ config_max = <<>>
    /\ cwd = ScriptDir
    /\ git_cache = [k \in CacheKeys |-> <<>>]
    /\ ret = <<>>
    /\ raised = FALSE
    /\ op = NoOp
    /\ IdleParse
    /\ IdleCtx
    /\ IdleLoc
    /\ IdleRun
    /\ IdleDoc
    /\ IdlePlans
    /\ IdleActivity
    /\ IdleChats

\* the process starts: argparse, then the try block
StartRun ==
    /\ mpc = "exited"
    /\ runs < MaxRuns
    /\ runs' = runs + 1
    /\ program' \in {"static", "narrative"}
    /\ args' \in Invocations
    /\ mpc' = "start"
    /\ current' = 0
    /\ written' = <<>>
    /\ status' = -1
    /\ UNCHANGED cache_file
    /\ UNCHANGED <<config_max, cwd, git_cache, ret, raised, op>>
    /\ UNCHANGED <<pvars, cvars, lvars, rvars, dvars, kvars, avars, hvars>>

\* except Exception in main: the error is printed and sys.exit(1)
ExitOne ==
    /\ status' = 1
    /\ mpc' = "exited"
    /\ UNCHANGED <<args, current, cache_file, written, runs>>

\* the constructor, then the choice of the mode. The constructor raises
\* when the config file is missing or the AI client cannot be set up.
MainConstruct ==
    /\ mpc = "start"
    /\ \E raises \in BOOLEAN :
          IF raises THEN ExitOne
          ELSE /\ mpc' = IF ~IsRange(args) THEN "single"
                         ELSE IF program = "static" THEN "range" ELSE "loop"
               /\ current' = IF IsRange(args) /\ program = "narrative"
                             THEN StrPTime(args.start[1]) ELSE current
               /\ UNCHANGED <<args, cache_file, written, status, runs>>
    /\ UNCHANGED <<gvars, pvars, cvars, lvars, rvars, dvars, kvars, avars, hvars>>

\* static main, lines 483-485: one summary of the whole range
StaticRange ==
    /\ mpc = "range"
    /\ \E raises \in BOOLEAN :
          IF raises THEN ExitOne
          ELSE /\ written' = Append(written,
                                    SummaryFile(RangeLabel(args.start[1], args.end[1])))
               /\ status' = 0
               /\ mpc' = "exited"
               /\ UNCHANGED <<args, current, cache_file, runs>>
    /\ UNCHANGED <<gvars, pvars, cvars, lvars, rvars, dvars, kvars, avars, hvars>>

\* narrative main, lines 551-555: one iteration of `while current <= end`
NarrativeDay ==
    /\ mpc = "loop"
    /\ current <= StrPTime(args.end[1])
    /\ \E raises \in BOOLEAN :
          IF raises THEN ExitOne
          ELSE /\ written' = Append(written, JournalFile(StrFTime(current)))
               /\ current' = current + 1
               /\ UNCHANGED <<args, mpc, cache_file, status, runs>>
    /\ UNCHANGED <<gvars, pvars, cvars, lvars, rvars, dvars, kvars, avars, hvars>>

\* the loop condition fails: the try block ends and main returns
NarrativeRangeEnd ==
    /\ mpc = "loop"
    /\ current > StrPTime(args.end[1])
    /\ status' = 0
    /\ mpc' = "exited"
    /\ UNCHANGED <<args, current, cache_file, written, runs>>
    /\ UNCHANGED <<gvars, pvars, cvars, lvars, rvars, dvars, kvars, avars, hvars>>

\* the else branch of both mains: the document of args.date is generated
\* and saved; the static program then calls update_cache(args.date)
SingleDate ==
    /\ mpc = "single"
    /\ \E raises \in BOOLEAN :
          IF raises THEN ExitOne
          ELSE /\ written' = Append(written, IF program = "static"
                                             THEN SummaryFile(args.date)
                                             ELSE JournalFile(args.date))
               /\ cache_file' = IF program = "static" THEN <<args.date>> ELSE cache_file
               /\ status' = 0
               /\ mpc' = "exited"
               /\ UNCHANGED <<args, current, runs>>
    /\ UNCHANGED <<gvars, pvars, cvars, lvars, rvars, dvars, kvars, avars, hvars>>

NextMain ==
    \/ StartRun \/ MainConstruct \/ StaticRange \/ NarrativeDay
    \/ NarrativeRangeEnd \/ SingleDate

SpecMain == InitSpecMain /\ [][NextMain]_vars

-----------------------------------------------------------------------------
(* Specification of the static document: runs of generate_summary and      *)
(* save_summary for the same target date on the same repositories, commits *)
(* and plan files, at the same or at a later time                          *)

InitSpecDoc ==
    /\ clock \in ClockTimes
    /\ repo_commits \in [{RepoList[i] : i \in 1..Len(RepoList)} -> DocHistories]
    /\ dirty \in [{RepoList[i] : i \in 1..Len(RepoList)} -> ModifiedFiles]
    /\ dirty[RepoList[2]] = <<>>
    /\ plan_files \in PlanSamples
    /\ extracted = [r \in {RepoList[i] : i \in 1..Len(RepoList)} |-> <<>>]
    /\ document = <<>>
    /\ summary_file = <<>>
    /\ documents = <<>>
    /\ dpc = "ready"
    /\ IdleParse
    /\ IdleGit
    /\ IdleCtx
    /\ IdleLoc
    /\ IdleRun
    /\ IdleMain
    /\ IdlePlans
    /\ IdleActivity
    /\ IdleChats

\* summary = generator.generate_summary(TargetDate)
GenerateSummary ==
    /\ dpc = "ready"
    /\ extracted' = [r \in DOMAIN repo_commits |-> ExtractAt(repo_commits[r], clock)]
    /\ document' = FormatSummary(TargetDate, <<>>,
                                 WithFileModifications(RepoData(RepoList, extracted'), dirty),
                                 PlanRecords(FindMtimeLastDay(plan_files, clock)),
                                 Digits(clock))
    /\ dpc' = "generated"
    /\ UNCHANGED <<clock, repo_commits, dirty, plan_files, summary_file, documents>>
    /\ UNCHANGED <<pvars, gvars, cvars, lvars, rvars, mvars, kvars, avars, hvars>>

\* generator.save_summary(summary, TargetDate): output_file.write_text(summary)
SaveSummary ==
    /\ dpc = "generated"
    /\ summary_file' = <<document>>
    /\ documents' = Append(documents, document)
    /\ dpc' = "saved"
    /\ UNCHANGED <<clock, repo_commits, dirty, plan_files, extracted, document>>
    /\ UNCHANGED <<pvars, gvars, cvars, lvars, rvars, mvars, kvars, avars, hvars>>

\* the program is run again, now or later, on the same inputs
RunAgain ==
    /\ dpc = "saved"
    /\ Len(documents) < MaxRuns
    /\ clock' \in {t \in ClockTimes : t >= clock}
    /\ dpc' = "ready"
    /\ UNCHANGED <<repo_commits, dirty, plan_files, extracted, document, summary_file,
                   documents>>
    /\ UNCHANGED <<pvars, gvars, cvars, lvars, rvars, mvars, kvars, avars, hvars>>

NextDoc == GenerateSummary \/ SaveSummary \/ RunAgain

SpecDoc == InitSpecDoc /\ [][NextDoc]_vars

-----------------------------------------------------------------------------
(* Specification of the plan collector: one generator of either program,   *)
(* whose get_cursor_plans is called for any target date at any time        *)

InitSpecPlans ==
    /\ plans_dir \in PlanDirs
    /\ call_time = 30
    /\ plans_target = 0
    /\ plans_ret = <<>>
    /\ plans_scan = "none"
    /\ InitGenerator({<<>>})
    /\ IdleParse
    /\ IdleCtx
    /\ IdleLoc
    /\ IdleRun
    /\ IdleMain
    /\ IdleDoc
    /\ IdleActivity
    /\ IdleChats

\* DailyJournalGenerator.get_cursor_plans(target) at time t
GetCursorPlansStatic ==
    /\ program = "static"
    /\ \E t \in {h \in CallTimes : h >= call_time}, target \in TargetDays,
          scan \in {"ok", "timeout"} :
          /\ call_time' = t
          /\ plans_target' = target
          /\ plans_scan' = scan
          /\ plans_ret' = <<StaticCursorPlans(plans_dir, target, t, scan)>>
    /\ UNCHANGED plans_dir
    /\ UNCHANGED <<pvars, gvars, cvars, lvars, rvars, mvars, dvars, avars, hvars>>

\* AIJournalGenerator.get_cursor_plans(target) at time t
GetCursorPlansNarrative ==
    /\ program = "narrative"
    /\ \E t \in {h \in CallTimes : h >= call_time}, target \in TargetDays :
          /\ call_time' = t
          /\ plans_target' = target
          /\ plans_ret' = <<NarrativeCursorPlans(plans_dir, target)>>
    /\ UNCHANGED <<plans_dir, plans_scan>>
    /\ UNCHANGED <<pvars, gvars, cvars, lvars, rvars, mvars, dvars, avars, hvars>>

NextPlans == GetCursorPlansStatic \/ GetCursorPlansNarrative

SpecPlans == InitSpecPlans /\ [][NextPlans]_vars

-----------------------------------------------------------------------------
(* Specification of the activity collector: get_cursor_activity on any     *)
(* store with any configuration, then the prompt and the document details  *)
(* built from the bundle it returned                                       *)

InitSpecActivity ==
    /\ store \in Stores
    /\ use_cursor_logs \in {<<>>, <<TRUE>>, <<FALSE>>}
    /\ activity = <<>>
    /\ act_raised = FALSE
    /\ prompt = <<>>
    /\ apc = "ready"
    /\ IdleParse
    /\ IdleGit
    /\ IdleCtx
    /\ IdleLoc
    /\ IdleRun
    /\ IdleMain
    /\ IdleDoc
    /\ IdlePlans
    /\ IdleChats

\* cursor_activity = self.get_cursor_activity(target_date)
GetCursorActivityCall ==
    /\ apc = "ready"
    /\ \E touched \in ListsOf(FilesTouched(QueryRows(store.rows))) :
          LET r == GetCursorActivity(store, use_cursor_logs, touched)
          IN  /\ act_raised' = r.raised
              /\ activity' = IF r.raised THEN <<>> ELSE <<r.bundle>>
              /\ apc' = IF r.raised THEN "done" ELSE "collected"
    /\ UNCHANGED <<store, use_cursor_logs, prompt>>
    /\ UNCHANGED <<pvars, gvars, cvars, lvars, rvars, mvars, dvars, kvars, hvars>>

\* generate_ai_journal_entry and _format_journal on the bundle
BuildFromActivity ==
    /\ apc = "collected"
    /\ prompt' = PromptActivity(activity[1]) \o DetailsActivity(activity[1])
    /\ apc' = "done"
    /\ UNCHANGED <<store, use_cursor_logs, activity, act_raised>>
    /\ UNCHANGED <<pvars, gvars, cvars, lvars, rvars, mvars, dvars, kvars, hvars>>

NextActivity == GetCursorActivityCall \/ BuildFromActivity

SpecActivity == InitSpecActivity /\ [][NextActivity]_vars

-----------------------------------------------------------------------------
(* Specification of the chat-context collector: one call on any chats      *)
(* directory                                                               *)

InitSpecChats ==
    /\ sessions \in SessionLists
    /\ use_cursor_memory \in {<<>>, <<TRUE>>, <<FALSE>>}
    /\ chats = <<>>
    /\ IdleParse
    /\ IdleGit
    /\ IdleCtx
    /\ IdleLoc
    /\ IdleRun
    /\ IdleMain
    /\ IdleDoc
    /\ IdlePlans
    /\ IdleActivity

GetCursorChatContextCall ==
    /\ chats = <<>>
    /\ chats' = <<GetCursorChatContext(sessions, use_cursor_memory)>>
    /\ UNCHANGED <<sessions, use_cursor_memory>>
    /\ UNCHANGED <<pvars, gvars, cvars, lvars, rvars, mvars, dvars, kvars, avars>>

NextChats == GetCursorChatContextCall

SpecChats == InitSpecChats /\ [][NextChats]_vars

-----------------------------------------------------------------------------
(* Claims about the stat-mode parser *)

IsBlank(line) == Strip(line) = <<>>

HeaderCount(lines) == Cardinality({i \in 1..Len(lines) : IsHeader(lines[i])})

\* C3: every well-formed header line read so far has yielded exactly one
\* commit record, appended to the result or still being accumulated: a
\* header read while a commit is accumulated first appends that commit.
C3_EveryHeaderYieldsOneRecord ==
    Len(commits) + Len(current_commit) = HeaderCount(Take(log_output, pos))

\* the lines of a text cut at its blank lines, the empty groups dropped
RECURSIVE Blocks(_, _)
Blocks(lines, cur) ==
    IF lines = <<>> THEN (IF cur = <<>> THEN <<>> ELSE <<cur>>)
    ELSE IF IsBlank(Head(lines))
         THEN (IF cur = <<>> THEN <<>> ELSE <<cur>>) \o Blocks(Tail(lines), <<>>)
    ELSE Blocks(Tail(lines), Append(cur, Head(lines)))

IsFileStatLine(line) == StartsWith(line, " ") /\ ReMatchStat(line).matched

\* a header followed by one or more file-stat lines
IsCommitBlock(b) ==
    /\ Len(b) >= 2
    /\ IsHeader(b[1])
    /\ \A i \in 2..Len(b) : IsFileStatLine(b[i])

WellSeparated(lines) == \A i \in 1..Len(Blocks(lines, <<>>)) : IsCommitBlock(Blocks(lines, <<>>)[i])

StatEntry(line) == [file |-> ReMatchStat(line).file, changes |-> ReMatchStat(line).changes]

RecordOfBlock(b) ==
    LET parts == Split(b[1], "|", 3)
    IN  [hash |-> parts[1], author |-> parts[2], time_ago |-> parts[3], message |-> parts[4],
         files |-> [i \in 1..(Len(b) - 1) |-> StatEntry(b[i + 1])]]

-----------------------------------------------------------------------------
(* Claims about the commit extractor *)

Returned(name) == op.name = name /\ ~raised

\* C1: whenever get_git_commits (of either program) or
\* get_file_modifications has returned, on success, on a non-zero exit, on a
\* timeout, on any exception inside the call or on a cache hit, the working
\* directory is the workspace root.
C1_CwdIsWorkspaceRootAfterCall ==
    op.name \in {"get_git_commits", "get_file_modifications"} => cwd = WorkspaceRoot

\* a cache hit, which leaves the directory as the earlier calls restored it
C1_Witness ==
    /\ op.name = "get_git_commits"
    /\ op.hit
    /\ cwd = WorkspaceRoot

ExtractionFailures == {"nonzero", "chdir_fail", "timeout", "spawn_error"}

\* C2: when the extraction fails (the directory change fails, git exits
\* non-zero, the call times out, git cannot be started), get_git_commits
\* returns an empty list and raises nothing to its caller.
C2_FailureReturnsEmptyList ==
    (op.name = "get_git_commits" /\ op.outcome \in ExtractionFailures) =>
        (ret = <<>> /\ ~raised)

\* the static program's call returned [] after os.chdir(repo_path) failed
C2_Witness ==
    /\ program = "static"
    /\ op.name = "get_git_commits"
    /\ op.outcome = "chdir_fail"
    /\ ret = <<>>
    /\ ~raised

\* C6: a successful extraction from a repository with N commits in the
\* window, under a maximum M >= 1 (50 when not configured), returns exactly
\* min(N, M) records: the N most recent commits' first min(N, M), in order.
C6_ExactlyMinRecords ==
    (op.name = "get_git_commits" /\ op.outcome = "ok" /\ MaxCommitsPerRepo(config_max) >= 1) =>
        /\ Len(ret) = Min(op.n, MaxCommitsPerRepo(config_max))
        /\ \A i \in 1..Len(ret) : ret[i].hash = HashOf(i)

-----------------------------------------------------------------------------
(* Claims about the flat-mode parser *)

PipeCount(line) == Cardinality({i \in 1..Len(line) : line[i] = "|"})

\* the index of the n-th '|' of a line that has at least n
NthPipe(line, n) ==
    CHOOSE i \in 1..Len(line) :
        line[i] = "|" /\ Cardinality({j \in 1..i : line[j] = "|"}) = n

\* a non-empty line with at least four '|'-separated fields
HasFourFields(line) == line # <<>> /\ PipeCount(line) >= 3

Between(line, a, b) == SubSeq(line, a + 1, b - 1)

\* the record the claim describes for a line with at least four fields
ClaimedRecord(line) ==
    LET p1 == NthPipe(line, 1)
        p2 == NthPipe(line, 2)
        p3 == NthPipe(line, 3)
        p4 == IF PipeCount(line) >= 4 THEN NthPipe(line, 4) ELSE Len(line) + 1
    IN  [hash |-> Take(line, p1 - 1), author |-> Between(line, p1, p2),
         date |-> Between(line, p2, p3), message |-> Between(line, p3, p4),
         body |-> Drop(line, Min(p4, Len(line))), repo |-> FlatRepo]

RECURSIVE ClaimedRecords(_)
ClaimedRecords(lines) ==
    IF lines = <<>> THEN <<>>
    ELSE (IF HasFourFields(Head(lines)) THEN <<ClaimedRecord(Head(lines))>> ELSE <<>>)
         \o ClaimedRecords(Tail(lines))

\* C5 as stated: the records are, in input order, one per line of the
\* output that has at least four fields, with the fields of that line.
C5_RecordsOfEveryLine ==
    ppc = "done" => commits = ClaimedRecords(log_output)

\* C5, amended: the same of the lines of the output once the whitespace at
\* the two ends of the whole output is stripped; the record count is the
\* number of lines of the output less the lines without four fields.
C5_RecordsOfStrippedLines ==
    ppc = "done" =>
        /\ commits = ClaimedRecords(StripOutput(log_output))
        /\ Len(commits) = Len(log_output)
                - Cardinality({i \in 1..Len(log_output) : ~HasFourFields(log_output[i])})

\* a body holding the delimiter, a dropped line and a kept line, with outer
\* whitespace stripped from the output
C5_Witness ==
    /\ ppc = "done"
    /\ Len(log_output) = 3
    /\ \E i \in 1..3 : log_output[i] = F6
    /\ \E i \in 1..3 : log_output[i] = F3
    /\ log_output[3] = FT
    /\ Len(commits) = 2
    /\ \E i \in 1..2 : HasChar(commits[i].body, "|")

-----------------------------------------------------------------------------
(* Claims about the context assembler *)

\* the distinct repository names of a commit sequence, in first-occurrence order
RECURSIVE FirstOccurrences(_, _)
FirstOccurrences(cs, seen) ==
    IF cs = <<>> THEN <<>>
    ELSE IF RepoOf(Head(cs)) \in seen THEN FirstOccurrences(Tail(cs), seen)
    ELSE <<RepoOf(Head(cs))>> \o FirstOccurrences(Tail(cs), seen \cup {RepoOf(Head(cs))})

\* the commits of one repository, in input order
CommitsOfRepo(cs, repo) == LET Mine(c) == RepoOf(c) = repo IN SelectSeq(cs, Mine)

RECURSIVE SumSizes(_)
SumSizes(dict) == IF dict = <<>> THEN 0 ELSE Len(Head(dict).items) + SumSizes(Tail(dict))

\* C7: the groups of commits_by_repo are keyed by repository name in
\* first-occurrence order, each lists its repository's commits in input
\* order, the group sizes sum to the number of commits, and total_commits
\* is that number.
C7_GroupingPartitionsCommits ==
    context # <<>> =>
        LET groups == context[1].commits_by_repo
        IN  /\ [i \in 1..Len(groups) |-> groups[i].key] = FirstOccurrences(all_commits, {})
            /\ \A i \in 1..Len(groups) :
                   groups[i].items = CommitsOfRepo(all_commits, groups[i].key)
            /\ SumSizes(groups) = Len(all_commits)
            /\ context[1].total_commits = Len(all_commits)

\* three commits of two repositories, interleaved, one commit given twice
C7_Witness ==
    /\ context # <<>>
    /\ Len(all_commits) = 3
    /\ all_commits[1] = all_commits[3]
    /\ RepoOf(all_commits[2]) # RepoOf(all_commits[1])
    /\ Len(context[1].commits_by_repo) = 2
    /\ context[1].total_commits = 3

-----------------------------------------------------------------------------
(* Claims about the repository locator *)

ConfiguredPatterns == IF exclude_patterns = <<>> THEN <<>> ELSE exclude_patterns[1]
ConfiguredProjects == IF exclude_projects = <<>> THEN <<>> ELSE exclude_projects[1]

\* C8: find_git_repos, by the find scan or by the fallback walk, returns no
\* path whose final segment is in exclude_projects and no path whose string
\* contains an exclude_patterns entry stripped of its '**/' and '/**'.
C8_NoExcludedRepoReturned ==
    \A i \in 1..Len(found.repos) :
        /\ \A j \in 1..Len(ConfiguredProjects) :
               ConfiguredProjects[j] # PathName(found.repos[i])
        /\ \A j \in 1..Len(ConfiguredPatterns) :
               ~IsSubstring(StripMarkers(ConfiguredPatterns[j]), found.repos[i])

\* the fallback walk of the static program returned a repository while one
\* root was excluded by name and another by a pattern
C8_Witness ==
    /\ program = "static"
    /\ found.scan = "timeout"
    /\ found.repos = <<DirA>>
    /\ DirC \in tree /\ ConfiguredProjects = << <<"c">> >>
    /\ DirNC \in tree /\ ConfiguredPatterns = <<PatternNm>>

-----------------------------------------------------------------------------
(* Claims about a run *)

ScanErrors == {"timeout", "partial", "spawn_error"}

\* C9: an error of the repository scan (a timeout, find failing to start or
\* exiting with an error) never ends the run: the exception main catches,
\* if any, is not one of the scan, and unless something else fails the
\* document is saved and the process exits 0.
C9_ScanErrorNeverFatal ==
    (pc = "exited" /\ found.scan \in ScanErrors) =>
        /\ failure.cause # "scan"
        /\ (failure = NoFailure => (saved /\ exit_code = 0))

\* C10: in the narrative program a run that fails because the provider is
\* unavailable or its credentials are missing or invalid fails in the
\* construction of the generator, before any collection operation.
C10_ProviderFailureBeforeCollection ==
    (program = "narrative" /\ pc = "exited"
        /\ failure.cause \in {"credentials", "provider_unavailable"}) =>
        (failure.op = "__init__" /\ trail = <<>>)

-----------------------------------------------------------------------------
(* Claims about invocations *)

RunEnds == mpc # "exited" /\ mpc' = "exited"

\* C11: the last-run marker holds the date of the most recent successful
\* single-date run: a run that ends successfully in single-date mode leaves
\* the marker holding its target date, a run that fails or processes a range
\* leaves it as it was, and nothing else changes it.
C11_MarkerTracksSingleDateRuns ==
    [][ /\ (RunEnds /\ status' = 0 /\ ~IsRange(args)) => cache_file' = <<args.date>>
        /\ (RunEnds /\ ~(status' = 0 /\ ~IsRange(args))) => cache_file' = cache_file
        /\ ~RunEnds => cache_file' = cache_file ]_vars

\* the days of a range, in ascending order
DaysOfRange(a) ==
    [i \in 1..(StrPTime(a.end[1]) - StrPTime(a.start[1]) + 1) |->
        StrFTime(StrPTime(a.start[1]) + i - 1)]

\* C12: an invocation with --start and --end that ends successfully has
\* written exactly one file per day of the range, named by the day's date,
\* in ascending order of the days.
C12_OneFilePerDayOfRange ==
    (mpc = "exited" /\ status = 0 /\ runs > 0 /\ IsRange(args)) =>
        written = [i \in 1..Len(DaysOfRange(args)) |->
                      IF program = "static" THEN SummaryFile(DaysOfRange(args)[i])
                      ELSE JournalFile(DaysOfRange(args)[i])]

-----------------------------------------------------------------------------
(* Claims about the static document *)

\* a document without the lines that hold the time of its generation
SansStamps(doc) ==
    SelectSeq(doc, LAMBDA l : l.kind \notin {"generated_on", "generated"})

\* C13: two runs of the static path for the same date on the same
\* repositories, commits and plan files return the same document apart from
\* the generation timestamps, and after the second run {date}_summary.md
\* holds one document, the second, not a concatenation.
C13_SecondRunSameDocument ==
    (dpc = "saved" /\ Len(documents) >= 2) =>
        /\ SansStamps(documents[2]) = SansStamps(documents[1])
        /\ summary_file = <<documents[Len(documents)]>>

LinesOfKind(doc, kind) == SelectSeq(doc, LAMBDA l : l.kind = kind)

\* the repositories for which extraction returned at least one commit
ActiveRepos == SelectSeq(RepoList, LAMBDA r : extracted[r] # <<>>)

RECURSIVE SumExtracted(_)
SumExtracted(repos) ==
    IF repos = <<>> THEN 0 ELSE Len(extracted[Head(repos)]) + SumExtracted(Tail(repos))

\* C14: the document has a section for a repository iff extraction returned
\* at least one commit for it, Total Repositories is the number of those
\* repositories and Total Commits the sum of their commit counts; with no
\* commits and no plans the document is still produced, with the date and
\* both totals 0.
C14_SectionsAndTotals ==
    dpc # "ready" =>
        /\ LinesOfKind(document, "project")
             = [i \in 1..Len(ActiveRepos) |-> Line("project", <<ActiveRepos[i]>>)]
        /\ LinesOfKind(document, "total_repositories")
             = <<Line("total_repositories", Digits(Len(ActiveRepos)))>>
        /\ LinesOfKind(document, "total_commits")
             = <<Line("total_commits", Digits(SumExtracted(RepoList)))>>
        /\ LinesOfKind(document, "title") = <<Line("title", <<TargetDate>>)>>
        /\ Len(LinesOfKind(document, "commit")) = SumExtracted(RepoList)

C14_Witness ==
    /\ dpc = "generated"
    /\ extracted["r1"] = <<>>
    /\ Len(extracted["r2"]) = 2
    /\ LinesOfKind(document, "total_repositories") = <<Line("total_repositories", <<"1">>)>>
    /\ LinesOfKind(document, "total_commits") = <<Line("total_commits", <<"2">>)>>

-----------------------------------------------------------------------------
(* Claims about the plan collector *)

\* C15: a call of get_cursor_plans whose scan completes returns a readable
\* file of the plans directory iff its name matches *.plan.md and the
\* calendar day of its modification time is the target date, whatever the
\* time of the call.
C15_PlansOfTargetDay ==
    (plans_ret # <<>> /\ plans_dir.exists /\ plans_scan # "timeout") =>
        plans_ret[1] = SelectSeq(plans_dir.files,
                             LAMBDA f : /\ IsPlanName(f.name)
                                        /\ DayOf(f.mtime) = plans_target
                                        /\ f.readable)

-----------------------------------------------------------------------------
(* Claims about the activity collector *)

\* the store is absent, disabled by configuration, or fails to open or answer
StoreUnavailable ==
    store.state # "ok" \/ use_cursor_logs = <<FALSE>>

\* C16: when the store is absent, use_cursor_logs is false, or opening or
\* querying the store fails, get_cursor_activity raises nothing and returns
\* a bundle with no records and no touched files, and the prompt and the
\* document details are then built from it, with no activity line.
C16_ActivityDegradesSilently ==
    (apc # "ready" /\ StoreUnavailable) =>
        /\ ~act_raised
        /\ activity # <<>>
        /\ ~Truthy(activity[1], "code_generated")
        /\ ~Truthy(activity[1], "files_touched")
        /\ (apc = "done" => prompt = <<>>)

C16_Witness ==
    /\ apc = "done"
    /\ store.state = "query_fails"
    /\ use_cursor_logs = <<>>
    /\ activity = <<[code_generated |-> <<>>, files_touched |-> <<>>,
                     conversations |-> <<>>]>>

-----------------------------------------------------------------------------
(* Claims about the chat-context collector *)

\* whether a session's store opens and lists a table whose name contains
\* 'message' or 'chat'
HasMessageTable(sess) ==
    sess.store = "ok" /\ \E i \in 1..Len(sess.tables) : IsMessageTable(sess.tables[i])

\* C17: with the collector enabled, the list returned holds, in the order of
\* the scan, exactly one probe for each session whose store has a table
\* whose name contains 'message' or 'chat', and none for any other session
\* (a store that is missing or fails to open or to answer).
C17_OneProbePerChatSession ==
    (chats # <<>> /\ UseCursorMemory(use_cursor_memory)) =>
        LET with_table == SelectSeq(sessions, HasMessageTable)
        IN  chats[1] = [i \in 1..Len(with_table) |->
                           [session |-> with_table[i].name, has_data |-> TRUE]]

-----------------------------------------------------------------------------
(* Claims about the extraction cache *)

\* cache_key = f"{repo_path}:{since_date}:{until_date}" of a call
CallKey(o) == <<o.repo, SinceDate, o.until>>

\* C18 as stated: a static get_git_commits call that repeats the key of the
\* call before it does not invoke git and returns the records that call
\* returned.
C18_RepeatedCallSkipsGit ==
    [][ (/\ program = "static"
         /\ op.name = "get_git_commits"
         /\ op'.name = "get_git_commits"
         /\ CallKey(op') = CallKey(op))
        => (op'.hit /\ ret' = ret) ]_vars

\* C18, amended: the cache starts empty; a static get_git_commits call whose
\* key was used by an earlier call of the run in which git exited 0 does not
\* invoke git and returns that call's records; any other call invokes git,
\* and its records are cached exactly when git exits 0.
C18_CachedCallsSkipGit ==
    /\ \A k \in CacheKeys : git_cache[k] = <<>>
    /\ [][ (program = "static" /\ op'.name = "get_git_commits") =>
             IF git_cache[CallKey(op')] # <<>>
             THEN /\ op'.hit
                  /\ ret' = git_cache[CallKey(op')][1]
                  /\ git_cache' = git_cache
             ELSE /\ ~op'.hit
                  /\ op'.outcome = "ok" =>
                        git_cache' = [git_cache EXCEPT ![CallKey(op')] = <<ret'>>]
                  /\ op'.outcome # "ok" => git_cache' = git_cache ]_vars

\* a cache hit on a repository that gained a commit since the cached call
C18_Witness ==
    /\ program = "static"
    /\ op.name = "get_git_commits"
    /\ op.hit
    /\ op.n = 2
    /\ Len(ret) = 1
    /\ git_cache[CallKey(op)] = <<ret>>

-----------------------------------------------------------------------------
(* Claims about the optional configuration fields *)

\* C19: a run whose configuration file exists and omits optional fields
\* (max_commits_per_repo, exclude_projects, exclude_patterns) uses their
\* defaults: it does not end in an error raised for a missing field.
C19_OptionalFieldsDefault ==
    (pc = "exited" /\ env.config_file
        /\ (config_max = <<>> \/ exclude_projects = <<>> \/ exclude_patterns = <<>>)) =>
        (failure.cause # "config" /\ failure.exc # "KeyError")

-----------------------------------------------------------------------------
(* Claims about the locator's timeout *)

\* C20: when the scan times out, the narrative locator returns no
\* repository; the static one returns repositories of the tree found by the
\* fallback walk, none of which lies strictly inside a directory that is
\* itself a repository root.
C20_TimeoutFallbackNoNesting ==
    found.scan = "timeout" =>
        /\ program = "narrative" => (found.repos = <<>> /\ found.exc = "none")
        /\ \A i \in 1..Len(found.repos) :
              /\ found.repos[i] \in tree
              /\ \A d \in tree : ~IsPrefix(d \o <<"/">>, found.repos[i])

\* the fallback walk returned the outer repository of a nested pair
C20_Witness ==
    /\ program = "static"
    /\ found.scan = "timeout"
    /\ found.exc = "none"
    /\ {DirA, DirAB} \subseteq tree
    /\ \E i \in 1..Len(found.repos) : found.repos[i] = DirA

-----------------------------------------------------------------------------
(* C21: the indented line 'filename | count', read apart from the pattern  *)

\* a sign followed by one or more digits
IsSignedCount(w) ==
    /\ Len(w) >= 2
    /\ w[1] \in SIGNS
    /\ \A i \in 2..Len(w) : w[i] \in DIGITS

CountLineName(line) == Strip(Take(line, FirstIndex(line, "|") - 1))

\* the whole run of digits after the '|'
CountLineCount(line) == DigitRun(LStrip(Drop(line, FirstIndex(line, "|"))))

\* what follows the count, cut at the spaces
CountLineSigned(line) ==
    LET r == LStrip(Drop(line, FirstIndex(line, "|")))
    IN  SelectSeq(Split(Drop(r, Len(DigitRun(r))), " ", Len(line)), LAMBDA w : w # <<>>)

\* 'filename | count', followed by no, one or two signed counts
IsCountLine(line) ==
    /\ StartsWith(line, " ")
    /\ FirstIndex(line, "|") > 1
    /\ CountLineName(line) # <<>>
    /\ CountLineCount(line) # <<>>
    /\ Len(CountLineSigned(line)) <= 2
    /\ \A i \in 1..Len(CountLineSigned(line)) : IsSignedCount(CountLineSigned(line)[i])

\* C21: while a commit is being accumulated, an indented line of the form
\* 'filename | count', the signed insertion and deletion counts present or
\* absent, appends exactly one entry to the commit's file list, with the
\* filename as file and the whole total-change count as changes; any other
\* indented line leaves the parse state as it was.
C21_CountLineAppendsWholeCount ==
    [][(/\ ppc = "loop"
        /\ pos < Len(log_output)
        /\ current_commit # <<>>
        /\ StartsWith(log_output[pos + 1], " ")
        /\ ~IsBlank(log_output[pos + 1]))
       => /\ commits' = commits
          /\ current_commit' = current_commit
          /\ current_files' =
                IF IsCountLine(log_output[pos + 1])
                THEN Append(current_files, [file    |-> CountLineName(log_output[pos + 1]),
                                            changes |-> CountLineCount(log_output[pos + 1])])
                ELSE current_files]_vars

-----------------------------------------------------------------------------
(* C22: where the file entries of a record come from                       *)

\* the first blank line or well-formed header after line h, or the end
SegmentEnd(lines, h) ==
    IF \E j \in (h + 1)..Len(lines) : IsBlank(lines[j]) \/ IsHeader(lines[j])
    THEN CHOOSE j \in (h + 1)..Len(lines) :
            /\ IsBlank(lines[j]) \/ IsHeader(lines[j])
            /\ \A k \in (h + 1)..(j - 1) : ~(IsBlank(lines[k]) \/ IsHeader(lines[k]))
    ELSE Len(lines) + 1

\* the file-stat lines after header h and before the end of its segment
SegmentStatLines(lines, h) ==
    SelectSeq(SubSeq(lines, h + 1, SegmentEnd(lines, h) - 1), IsFileStatLine)

\* the record of header h with the entries of its own segment
RecordAt(lines, h) ==
    LET parts == Split(lines[h], "|", 3)
        stats == SegmentStatLines(lines, h)
    IN  [hash |-> parts[1], author |-> parts[2], time_ago |-> parts[3], message |-> parts[4],
         files |-> [i \in 1..Len(stats) |-> StatEntry(stats[i])]]

\* C22: every record appended so far is the record of a well-formed header
\* line already read, and its file entries are exactly those of the
\* file-stat lines after that header and before the next blank line, next
\* well-formed header or end of input, so that a file-stat line read while
\* no commit is accumulated is in no record; records keep the order of
\* their headers, and there are never more records than well-formed headers.
C22_FilesComeFromOwnSegment ==
    /\ Len(commits) <= HeaderCount(Take(log_output, pos))
    /\ \A i \in 1..Len(commits) :
          \E h \in 1..pos : IsHeader(log_output[h]) /\ commits[i] = RecordAt(log_output, h)
    /\ \A i, j \in 1..Len(commits) :
          i < j => \E h1, h2 \in 1..pos :
                      /\ h1 < h2
                      /\ IsHeader(log_output[h1]) /\ commits[i] = RecordAt(log_output, h1)
                      /\ IsHeader(log_output[h2]) /\ commits[j] = RecordAt(log_output, h2)

\* a file-stat line before the first header, one after it, and a third
\* after the blank line that ends the commit: only the second is recorded
C22_Witness ==
    /\ ppc = "done"
    /\ Len(log_output) = 5
    /\ IsFileStatLine(log_output[1])
    /\ IsHeader(log_output[2])
    /\ IsFileStatLine(log_output[3])
    /\ IsBlank(log_output[4])
    /\ IsFileStatLine(log_output[5])
    /\ StatEntry(log_output[1]) # StatEntry(log_output[3])
    /\ StatEntry(log_output[5]) # StatEntry(log_output[3])
    /\ Len(commits) = 1
    /\ commits[1].files = <<StatEntry(log_output[3])>>

====
